---- MODULE Spec2Model ----
(***************************************************************************)
(* A model of greenhouse's synchronization primitives (greenhouse/utils.py) *)
(* running on the cooperative scheduler.  One task runs at a time; a task   *)
(* gives up control only inside Event.wait (scheduler.go_to_next) or by     *)
(* pausing, so every action below is the code a task (or a timer) runs      *)
(* between two suspension points.                                           *)
(***************************************************************************)
EXTENDS Integers, Sequences, FiniteSets, TLC

\* ---------------------------------------------------------------- bounds
NTasks == 3          \* client tasks (greenlets)
TmTasks == 2         \* client tasks of the specifications with timed waits
MaxTime == 1         \* the clock stops advancing here
MaxTimers == 1       \* timed waits ever armed (hit_timeout closures)
MaxCallbacks == 2    \* timeout callbacks ever registered
MaxWaits == 2        \* Condition.wait calls that construct an Event
MaxDepth == 2        \* RLock re-entry depth explored
MaxValue == 2        \* Semaphore counter values explored
MaxItems == 3        \* Queue.put calls explored
MaxSize == 2         \* Queue maxsize values explored (0 is unbounded)
MaxTimerObjs == 2    \* Timer objects constructed
MaxFd == 1           \* descriptors 0..MaxFd are registered with a poller
MaxMask == 15        \* event masks 0..MaxMask are passed to register
ChTasks == 4         \* client tasks of the Channel specification
MaxChanOps == 3      \* Channel.send calls, and Channel.receive calls, explored
MaxRaceTimers == 2   \* timed waits armed where expiry races with set

MaxOf(S) == CHOOSE x \in S : \A y \in S : y <= x
Tasks == 1..MaxOf({NTasks, TmTasks, ChTasks})
None == 0 - 1        \* Python's None, for a timeout or an owner
TimeoutChoices == {None, 0, 1}

\* Event objects: the Lock's own event, one event the clients share, and the
\* events Condition.wait constructs.
LockEvent == 1
UserEvent == 2
QueueLockEvent == 3  \* the event of the second lock a Queue owns
EventIds == 1..(QueueLockEvent + MaxWaits)

VARIABLES
    \* scheduler state (greenhouse._state.state)
    current,          \* the running task, 0 while the dispatch loop runs
    to_run,           \* this tick's snapshot, still to be resumed
    paused,           \* the run queue: tasks scheduled since the snapshot
    awoken,           \* state.awoken_from_events
    timed_paused,     \* state.timed_paused: <<waketime, runner>>, sorted
    paused_on,        \* state.paused_on_events: event -> list of tasks
    now,              \* time.time()
    pc,               \* where each task is suspended
    exc,              \* a failure delivered to a task blocked in wait
    \* Event objects
    is_set,           \* Event._is_set
    tcb,              \* Event._timeout_callbacks: event -> task -> list
    active,           \* Event._active_timeout_runners
    hit,              \* the hit_timeout closures: runner -> [ev, task]
    ncb,              \* callbacks registered so far
    nev,              \* Event objects constructed so far
    \* Lock / RLock
    kind,             \* "Lock" or "RLock": the class of the lock object
    locked,           \* Lock._locked
    owner,            \* RLock._owner
    count,            \* RLock._count
    \* Condition
    waiters,          \* Condition._waiters: deque of events
    wev,              \* the event of each task's current Condition.wait
    \* Semaphore, Queue, Timer, poller objects
    sem,              \* [kind, value, initial, waiters]
    queue,            \* [maxsize, queue, unfinished_tasks, not_empty, not_full],
                      \* and arg: the item of each task's suspended put
    timer,            \* the Timer objects: [waketime, glet] each, and addresses
    poller,           \* [backend, registry, facility]
    chan,             \* Channel: [balance, senders, receivers]
    \* history (ghost) variables
    hist,             \* what the calls on those objects returned so far
    last,             \* the operation the last step executed, and its result
    wend,             \* how each timed wait ended: waiting / set / timeout
    cohort,           \* tasks the last waking Event.set woke, not yet resumed
    started,          \* the cohort has entered a snapshot
    holding,          \* successful acquires minus releases, per task
    misused           \* some task released a lock it did not hold

vars == <<current, to_run, paused, awoken, timed_paused, paused_on, now, pc, exc,
          is_set, tcb, active, hit, ncb, nev, kind, locked, owner, count,
          waiters, wev, sem, queue, timer, poller, chan, hist,
          last, wend, cohort, started, holding, misused>>

schedVars == <<current, to_run, paused, awoken, timed_paused, paused_on, now, pc, exc>>
eventVars == <<is_set, tcb, active, hit, ncb, nev>>
lockVars == <<kind, locked, owner, count>>
condVars == <<waiters, wev>>
lockGhost == <<holding, misused>>
setGhost == <<cohort, started>>
objVars == <<sem, queue, timer, poller, chan, hist>>

NoOp == [op |-> "sched", t |-> 0, res |-> "ok", ran |-> <<>>, err |-> 0]

\* ------------------------------------------------------------- sequences
Range(s) == {s[i] : i \in 1..Len(s)}

\* list.remove(x): drops the first occurrence of x
RECURSIVE RemoveFirst(_, _)
RemoveFirst(s, x) ==
    IF s = <<>> THEN <<>>
    ELSE IF Head(s) = x THEN Tail(s)
    ELSE <<Head(s)>> \o RemoveFirst(Tail(s), x)

\* how often x occurs in s
RECURSIVE Occurs(_, _)
Occurs(s, x) ==
    IF s = <<>> THEN 0
    ELSE (IF Head(s) = x THEN 1 ELSE 0) + Occurs(Tail(s), x)

\* every sequence that lists the members of the set S once each
RECURSIVE Orderings(_)
Orderings(S) ==
    IF S = {} THEN {<<>>}
    ELSE UNION {{<<x>> \o s : s \in Orderings(S \ {x})} : x \in S}

Op(name, t, res) == [op |-> name, t |-> t, res |-> res, ran |-> <<>>, err |-> 0]

\* ------------------------------------------------------------ the heap
\* The objects the primitives read and write, as one record, so that a method
\* that calls another method is a composition of functions on it.
Heap ==
    [is_set |-> is_set, paused_on |-> paused_on, active |-> active,
     awoken |-> awoken, hit |-> hit, timed_paused |-> timed_paused,
     tcb |-> tcb, nev |-> nev, wend |-> wend,
     locked |-> locked, owner |-> owner, count |-> count,
     waiters |-> waiters,
     sem |-> sem, queue |-> queue, timer |-> timer, poller |-> poller,
     chan |-> chan,
     hist |-> hist]

Commit(h) ==
    /\ is_set' = h.is_set
    /\ paused_on' = h.paused_on
    /\ active' = h.active
    /\ awoken' = h.awoken
    /\ hit' = h.hit
    /\ timed_paused' = h.timed_paused
    /\ tcb' = h.tcb
    /\ nev' = h.nev
    /\ wend' = h.wend
    /\ locked' = h.locked
    /\ owner' = h.owner
    /\ count' = h.count
    /\ waiters' = h.waiters
    /\ sem' = h.sem
    /\ queue' = h.queue
    /\ timer' = h.timer
    /\ poller' = h.poller
    /\ chan' = h.chan
    /\ hist' = h.hist

\* ------------------------------------------------------------ scheduler
\* scheduler.schedule_in: the timer set is ordered by wake-time, then by
\* insertion order.
RECURSIVE InsertTimer(_, _)
InsertTimer(tp, entry) ==
    IF tp = <<>> THEN <<entry>>
    ELSE IF Head(tp)[1] <= entry[1] THEN <<Head(tp)>> \o InsertTimer(Tail(tp), entry)
    ELSE <<entry>> \o tp

\* the timers due at or before `at`, in wake-time order, as run-queue entries
RECURSIVE DueTimers(_, _)
DueTimers(tp, at) ==
    IF tp = <<>> \/ Head(tp)[1] > at THEN <<>>
    ELSE <<0 - Head(tp)[2]>> \o DueTimers(Tail(tp), at)

RECURSIVE NotDue(_, _)
NotDue(tp, at) ==
    IF tp = <<>> \/ Head(tp)[1] > at THEN tp
    ELSE NotDue(Tail(tp), at)

\* One dispatch tick begins: due timers, then the woken set, join the run
\* queue, which is snapshotted and cleared.
Repopulate ==
    /\ current = 0
    /\ to_run = <<>>
    /\ \E order \in Orderings(awoken) :
           to_run' = paused \o DueTimers(timed_paused, now) \o order
    /\ to_run' # <<>>
    /\ paused' = <<>>
    /\ awoken' = {}
    /\ timed_paused' = NotDue(timed_paused, now)
    /\ started' = (started \/ cohort \cap awoken # {})
    /\ last' = NoOp
    /\ UNCHANGED <<current, paused_on, now, pc, exc, eventVars, lockVars, condVars,
                   wend, cohort, lockGhost, objVars>>

\* The clock is read between ticks: time passes while the loop polls.
AdvanceTime ==
    /\ current = 0
    /\ to_run = <<>>
    /\ now < MaxTime
    /\ now' = now + 1
    /\ last' = NoOp
    /\ UNCHANGED <<current, to_run, paused, awoken, timed_paused, paused_on, pc, exc,
                   eventVars, lockVars, condVars, wend, setGhost, lockGhost, objVars>>

\* The dispatch loop resumes a task that had paused (or not yet started).
Dispatch(t) ==
    /\ current = 0
    /\ to_run # <<>>
    /\ Head(to_run) = t
    /\ pc[t] = "idle"
    /\ to_run' = Tail(to_run)
    /\ current' = t
    /\ last' = NoOp
    /\ UNCHANGED <<paused, awoken, timed_paused, paused_on, now, pc, exc,
                   eventVars, lockVars, condVars, wend, setGhost, lockGhost, objVars>>

\* scheduler.pause(): the caller goes to the back of the run queue, which
\* is not the snapshot being drained.
Pause_into_snapshot(t) ==
    /\ current = t
    /\ pc[t] = "idle"
    /\ to_run' = Append(to_run, t)
    /\ current' = 0
    /\ last' = NoOp
    /\ UNCHANGED <<paused, awoken, timed_paused, paused_on, now, pc, exc,
                   eventVars, lockVars, condVars, wend, setGhost, lockGhost, objVars>>

Pause(t) ==
    /\ current = t
    /\ pc[t] = "idle"
    /\ paused' = Append(paused, t)
    /\ current' = 0
    /\ last' = NoOp
    /\ UNCHANGED <<to_run, awoken, timed_paused, paused_on, now, pc, exc,
                   eventVars, lockVars, condVars, wend, setGhost, lockGhost, objVars>>

\* ---------------------------------------------------------------- Event
\* Event.set
Event_set_dropping(h, e) ==
    [h EXCEPT !.is_set[e] = TRUE,
              !.active[e] = {},
              !.awoken = h.awoken \cup
                  Range(SubSeq(h.paused_on[e], 2, Len(h.paused_on[e]))),
              !.paused_on[e] = <<>>]

Event_set_keeping_runners(h, e) ==
    [h EXCEPT !.is_set[e] = TRUE,
              !.awoken = h.awoken \cup Range(h.paused_on[e]),
              !.paused_on[e] = <<>>]

Event_set(h, e) ==
    [h EXCEPT !.is_set[e] = TRUE,
              !.active[e] = {},
              !.awoken = h.awoken \cup Range(h.paused_on[e]),
              !.paused_on[e] = <<>>]

\* Event.clear
Event_clear(h, e) == [h EXCEPT !.is_set[e] = FALSE]

\* Event.wait, line 59: whether the caller has to suspend
Event_wait_blocks_always(h, e) == TRUE

Event_wait_blocks(h, e) == ~h.is_set[e]

\* Event.wait, lines 60-78: the caller joins the waiters and, given a timeout,
\* arms hit_timeout
Event_wait_enter(h, e, t, timeout) ==
    LET h1 == [h EXCEPT !.paused_on[e] = Append(h.paused_on[e], t)]
        r == Len(h.hit) + 1
    IN  IF timeout = None THEN h1
        ELSE [h1 EXCEPT !.hit = Append(h.hit, [ev |-> e, task |-> t]),
                        !.timed_paused = InsertTimer(h.timed_paused, <<now + timeout, r>>),
                        !.active[e] = h.active[e] \cup {r},
                        !.wend = Append(h.wend, "waiting")]

\* hit_timeout, line 65: whether this runner is still the one in force
Hit_timeout_armed_always(h, r) == TRUE

Hit_timeout_armed(h, r) == r \in h.active[h.hit[r].ev]

\* hit_timeout, lines 71-73: a failing callback does not end the loop
Swallows_nothing(err) == FALSE

Swallows(err) == TRUE

\* hit_timeout, lines 74-75: the failure that is kept
Keep_last(error, err) == err

Keep_first(error, err) == IF error = 0 THEN err ELSE error

ValueErr == 0 - 2    \* list.remove / deque.remove of an absent element

\* A callback is [id, raises, removes]: one a client registered (removes = 0),
\* which returns or raises, or Condition.wait's timeout_cback (id = 0), which
\* removes its event from Condition._waiters.
Callback_error(cb, w) ==
    IF cb.removes # 0
    THEN (IF cb.removes \in Range(w) THEN 0 ELSE ValueErr)
    ELSE (IF cb.raises THEN cb.id ELSE 0)

\* hit_timeout, lines 69-75: the loop over the callbacks.  acc is
\* [w: Condition._waiters, ran: the callbacks run, error, stopped]
RECURSIVE Run_callbacks(_, _)
Run_callbacks(cbs, acc) ==
    IF cbs = <<>> \/ acc.stopped THEN acc
    ELSE LET cb == Head(cbs)
             err == Callback_error(cb, acc.w)
         IN  Run_callbacks(Tail(cbs),
                 [w |-> IF cb.removes # 0 /\ err = 0
                        THEN RemoveFirst(acc.w, cb.removes) ELSE acc.w,
                  ran |-> Append(acc.ran, cb.id),
                  error |-> IF err # 0 THEN Keep_first(acc.error, err) ELSE acc.error,
                  stopped |-> err # 0 /\ ~Swallows(err)])

\* the history of the waits an Event.set ends
EndedBySet(h, e) ==
    [i \in 1..Len(h.wend) |->
        IF h.hit[i].ev = e /\ h.wend[i] = "waiting" THEN "set" ELSE h.wend[i]]

SetGhost(h, e) == [h EXCEPT !.wend = EndedBySet(h, e)]

\* The failure hit_timeout raises reaches the task whose wait timed out.
Propagate(t, err) == [exc EXCEPT ![t] = err]

\* hit_timeout (Event.wait, lines 64-77), run by the dispatch loop as a timer
hit_timeout(r) ==
    LET e == hit[r].ev
        t == hit[r].task
        out == Run_callbacks(tcb[e][t],
                   [w |-> waiters, ran |-> <<>>, error |-> 0, stopped |-> FALSE])
    IN  /\ current = 0
        /\ to_run # <<>>
        /\ Head(to_run) = 0 - r
        /\ to_run' = Tail(to_run)
        /\ IF ~Hit_timeout_armed(Heap, r)
           THEN /\ last' = Op("hit_timeout", t, "disarmed")
                /\ UNCHANGED <<paused_on, awoken, exc, wend, waiters>>
           ELSE IF t \notin Range(paused_on[e])
           THEN \* line 67: list.remove raises ValueError
                /\ last' = [Op("hit_timeout", t, "raised") EXCEPT !.err = ValueErr]
                /\ exc' = Propagate(t, ValueErr)
                /\ UNCHANGED <<paused_on, awoken, wend, waiters>>
           ELSE /\ paused_on' = [paused_on EXCEPT ![e] = RemoveFirst(@, t)]
                /\ awoken' = awoken \cup {t}
                /\ wend' = [wend EXCEPT ![r] = "timeout"]
                /\ waiters' = out.w
                /\ last' = [op |-> "hit_timeout", t |-> t,
                            res |-> IF out.error = 0 THEN "fired" ELSE "raised",
                            ran |-> out.ran, err |-> out.error]
                /\ exc' = IF out.error # 0 THEN Propagate(t, out.error) ELSE exc
        /\ UNCHANGED <<current, paused, timed_paused, now, pc, eventVars,
                       lockVars, wev, setGhost, lockGhost, objVars>>

\* Event.set, called by a running task
EvSet(t, e) ==
    /\ current = t
    /\ pc[t] = "idle"
    /\ Commit(Event_set(SetGhost(Heap, e), e))
    /\ cohort' = IF paused_on[e] # <<>> THEN Range(paused_on[e]) ELSE cohort
    /\ started' = IF paused_on[e] # <<>> THEN FALSE ELSE started
    /\ last' = Op("set", t, "ok")
    /\ UNCHANGED <<current, to_run, paused, now, pc, exc, ncb, kind, wev, lockGhost>>

\* Event.clear, called by a running task
EvClear(t, e) ==
    /\ current = t
    /\ pc[t] = "idle"
    /\ Commit(Event_clear(Heap, e))
    /\ last' = Op("clear", t, "ok")
    /\ UNCHANGED <<current, to_run, paused, now, pc, exc, ncb, kind, wev,
                   setGhost, lockGhost>>

\* Event._add_timeout_callback(func, for_glet)
EvAddTimeoutCallback(t, e, for_glet, raises) ==
    /\ current = t
    /\ pc[t] = "idle"
    /\ ncb < MaxCallbacks
    /\ ncb' = ncb + 1
    /\ tcb' = [tcb EXCEPT ![e][for_glet] =
                   Append(@, [id |-> ncb + 1, raises |-> raises, removes |-> 0])]
    /\ last' = Op("add_timeout_callback", t, "ok")
    /\ UNCHANGED <<schedVars, is_set, active, hit, nev, lockVars, condVars,
                   wend, setGhost, lockGhost, objVars>>

\* Event.wait(timeout), called by a running task; `timers` caps the timed
\* waits that suspend
EvWait(t, e, timeout, timers) ==
    /\ current = t
    /\ pc[t] = "idle"
    /\ IF Event_wait_blocks(Heap, e)
       THEN /\ timeout # None => Len(hit) < timers
            /\ Commit(Event_wait_enter(Heap, e, t, timeout))
            /\ pc' = [pc EXCEPT ![t] = "ev_wait"]
            /\ current' = 0       \* scheduler.go_to_next()
            /\ last' = Op("wait", t, "blocked")
       ELSE /\ Commit(Heap)
            /\ last' = Op("wait", t, "returned")
            /\ UNCHANGED <<current, pc>>
    /\ UNCHANGED <<to_run, paused, now, exc, ncb, kind, wev, setGhost, lockGhost>>

\* The dispatch loop resumes a task suspended in Event.wait: wait returns, or
\* raises the failure of the timeout callbacks.
WaitReturn(t) ==
    /\ current = 0
    /\ to_run # <<>>
    /\ Head(to_run) = t
    /\ pc[t] = "ev_wait"
    /\ to_run' = Tail(to_run)
    /\ current' = t
    /\ pc' = [pc EXCEPT ![t] = "idle"]
    /\ exc' = [exc EXCEPT ![t] = 0]
    /\ cohort' = cohort \ {t}
    /\ started' = (started /\ cohort' # {})
    /\ last' = [op |-> "wait_return", t |-> t,
                res |-> IF exc[t] = 0 THEN "returned" ELSE "raised",
                ran |-> <<>>, err |-> exc[t]]
    /\ UNCHANGED <<paused, awoken, timed_paused, paused_on, now, eventVars,
                   lockVars, condVars, wend, lockGhost, objVars>>

\* ------------------------------------------------- specifications: Event
InitCommon ==
    /\ current = 0
    /\ to_run = <<>>
    /\ awoken = {}
    /\ timed_paused = <<>>
    /\ paused_on = [e \in EventIds |-> <<>>]
    /\ now = 0
    /\ pc = [t \in Tasks |-> "idle"]
    /\ exc = [t \in Tasks |-> 0]
    /\ is_set = [e \in EventIds |-> FALSE]
    /\ tcb = [e \in EventIds |-> [t \in Tasks |-> <<>>]]
    /\ active = [e \in EventIds |-> {}]
    /\ hit = <<>>
    /\ ncb = 0
    /\ nev = UserEvent
    /\ locked = FALSE
    /\ owner = None
    /\ count = 0
    /\ waiters = <<>>
    /\ wev = [t \in Tasks |-> 0]
    /\ last = NoOp
    /\ wend = <<>>
    /\ cohort = {}
    /\ started = FALSE
    /\ holding = [t \in Tasks |-> 0]
    /\ misused = FALSE

\* No Semaphore, Queue, Timer or poller has been constructed.
NoLock == [locked |-> FALSE, owner |-> None, count |-> 0, waiters |-> <<>>]

NoSem == [kind |-> "Semaphore", value |-> 0, initial |-> 0, waiters |-> <<>>]

NoQueue ==
    [maxsize |-> 0, queue |-> <<>>, unfinished_tasks |-> 0,
     not_empty |-> NoLock, not_full |-> NoLock, arg |-> <<>>]

NoTimer == [objs |-> <<>>, addr |-> <<>>, ran |-> <<>>]

NoPoller == [backend |-> "Select", registry |-> <<>>, facility |-> <<>>]

NoChan == [balance |-> 0, senders |-> <<>>, receivers |-> <<>>]

InitObjects ==
    /\ sem = NoSem
    /\ queue = NoQueue
    /\ timer = NoTimer
    /\ poller = NoPoller
    /\ chan = NoChan
    /\ hist = [spec |-> "none"]

\* Untimed waits, any number of waiters: every client is scheduled.
InitEvent ==
    /\ InitCommon
    /\ InitObjects
    /\ paused = [i \in 1..NTasks |-> i]
    /\ kind = "Lock"

NextEvent ==
    \/ Repopulate
    \/ \E t \in Tasks : Dispatch(t)
    \/ \E t \in Tasks : Pause(t)
    \/ \E t \in Tasks : WaitReturn(t)
    \/ \E t \in Tasks : EvSet(t, UserEvent)
    \/ \E t \in Tasks : EvClear(t, UserEvent)
    \/ \E t \in Tasks, timeout \in TimeoutChoices : EvWait(t, UserEvent, timeout, 0)

SpecEvent == InitEvent /\ [][NextEvent]_vars

\* Timed waits and timeout callbacks.
InitTimeout ==
    /\ InitCommon
    /\ InitObjects
    /\ paused = [i \in 1..TmTasks |-> i]
    /\ kind = "Lock"

NextTimeout ==
    \/ Repopulate
    \/ AdvanceTime
    \/ \E t \in Tasks : Dispatch(t)
    \/ \E t \in Tasks : Pause(t)
    \/ \E r \in 1..MaxTimers : r <= Len(hit) /\ hit_timeout(r)
    \/ \E t \in Tasks : WaitReturn(t)
    \/ \E t \in Tasks : EvSet(t, UserEvent)
    \/ \E t \in Tasks : EvClear(t, UserEvent)
    \/ \E t \in Tasks, f \in 1..TmTasks, raises \in BOOLEAN :
           EvAddTimeoutCallback(t, UserEvent, f, raises)
    \/ \E t \in Tasks, timeout \in TimeoutChoices :
           EvWait(t, UserEvent, timeout, MaxTimers)

SpecTimeout == InitTimeout /\ [][NextTimeout]_vars

\* ---------------------------------------------------------- Lock, RLock
\* Lock.acquire(blocking=False), lines 95-98
Lock_try(h) == [h |-> [h EXCEPT !.locked = TRUE], ret |-> ~h.locked]

\* Lock.release
Lock_release_unchecked(h) ==
    [h |-> Event_clear(Event_set([h EXCEPT !.locked = FALSE], LockEvent), LockEvent),
     err |-> "ok"]

Lock_release(h) ==
    IF ~h.locked
    THEN [h |-> h, err |-> "RuntimeError"]
    ELSE [h |-> Event_clear(Event_set([h EXCEPT !.locked = FALSE], LockEvent), LockEvent),
          err |-> "ok"]

\* RLock.release
RLock_release_at_once(h, t) ==
    IF ~h.locked \/ h.owner # t
    THEN [h |-> h, err |-> "RuntimeError"]
    ELSE [h |-> Event_clear(Event_set(
                    [h EXCEPT !.count = 0, !.locked = FALSE, !.owner = None],
                    LockEvent), LockEvent),
          err |-> "ok"]

RLock_release_any_owner(h, t) ==
    IF ~h.locked
    THEN [h |-> h, err |-> "RuntimeError"]
    ELSE IF h.count - 1 = 0
    THEN [h |-> Event_clear(Event_set(
                    [h EXCEPT !.count = 0, !.locked = FALSE, !.owner = None],
                    LockEvent), LockEvent),
          err |-> "ok"]
    ELSE [h |-> [h EXCEPT !.count = h.count - 1], err |-> "ok"]

RLock_release(h, t) ==
    IF ~h.locked \/ h.owner # t
    THEN [h |-> h, err |-> "RuntimeError"]
    ELSE IF h.count - 1 = 0
    THEN [h |-> Event_clear(Event_set(
                    [h EXCEPT !.count = 0, !.locked = FALSE, !.owner = None],
                    LockEvent), LockEvent),
          err |-> "ok"]
    ELSE [h |-> [h EXCEPT !.count = h.count - 1], err |-> "ok"]

\* lock.release() of the lock object, by its class
Release(h, t) == IF kind = "Lock" THEN Lock_release(h) ELSE RLock_release(h, t)

\* Lock.acquire line 99, RLock.acquire line 139: the loop's test, made when the
\* call starts and again each time the waiter is resumed
Acquire_must_wait_first_time_only(h, resumed) == h.locked /\ ~resumed

Acquire_must_wait(h, resumed) == h.locked

\* Lock.acquire lines 101-102, RLock.acquire lines 141-144: the lock is taken
Take(h, t) ==
    IF kind = "Lock" THEN [h EXCEPT !.locked = TRUE]
    ELSE [h EXCEPT !.owner = t, !.locked = TRUE, !.count = 1]

\* The blocking part of acquire: `while self._locked: self._event.wait()`, then
\* take the lock.  A wait that does not suspend makes the loop test again at
\* once, for ever.  Gives the heap and where the task is left.
Acquire_loop(h, t, resumed) ==
    IF Acquire_must_wait(h, resumed)
    THEN IF Event_wait_blocks(h, LockEvent)
         THEN [h |-> Event_wait_enter(h, LockEvent, t, None), at |-> "blocked"]
         ELSE [h |-> h, at |-> "spinning"]
    ELSE [h |-> Take(h, t), at |-> "taken"]

\* Lock.acquire / RLock.acquire up to its first suspension
Acquire(h, t, blocking) ==
    IF kind = "Lock"
    THEN IF ~blocking
         THEN LET r == Lock_try(h)
              IN  [h |-> r.h, at |-> IF r.ret THEN "taken" ELSE "refused"]
         ELSE Acquire_loop(h, t, FALSE)
    ELSE IF h.owner = t
         THEN [h |-> [h EXCEPT !.count = h.count + 1], at |-> "taken"]
         ELSE IF h.locked /\ ~blocking
         THEN [h |-> h, at |-> "refused"]
         ELSE Acquire_loop(h, t, FALSE)

\* what the caller sees of an acquire
AcquireResult(at) ==
    CASE at = "taken" -> "True"
      [] at = "refused" -> "False"
      [] at = "blocked" -> "blocked"
      [] at = "spinning" -> "spinning"

\* history: a successful acquire counts for the task, until a lock has been
\* released by a task that did not hold it
Acquired(t, at) ==
    IF at = "taken" /\ ~misused
    THEN [holding EXCEPT ![t] = IF kind = "Lock" THEN 1 ELSE @ + 1]
    ELSE holding

\* lock.acquire(blocking), called by a running task
AcquireCall(t, blocking) ==
    LET r == Acquire(Heap, t, blocking)
    IN  /\ current = t
        /\ pc[t] = "idle"
        /\ (kind = "RLock" /\ owner = t) => count < MaxDepth
        /\ Commit(r.h)
        /\ pc' = [pc EXCEPT ![t] = CASE r.at = "blocked" -> "lock_acq"
                                     [] r.at = "spinning" -> "spinning"
                                     [] OTHER -> "idle"]
        /\ current' = IF r.at = "blocked" THEN 0 ELSE t
        /\ holding' = Acquired(t, r.at)
        /\ last' = Op("acquire", t, AcquireResult(r.at))
        /\ UNCHANGED <<to_run, paused, now, exc, ncb, kind, wev, setGhost, misused>>

\* The dispatch loop resumes a task suspended in acquire's loop.
AcquireResume(t) ==
    LET r == Acquire_loop(Heap, t, TRUE)
    IN  /\ current = 0
        /\ to_run # <<>>
        /\ Head(to_run) = t
        /\ pc[t] = "lock_acq"
        /\ to_run' = Tail(to_run)
        /\ Commit(r.h)
        /\ pc' = [pc EXCEPT ![t] = CASE r.at = "blocked" -> "lock_acq"
                                     [] r.at = "spinning" -> "spinning"
                                     [] OTHER -> "idle"]
        /\ current' = IF r.at = "blocked" THEN 0 ELSE t
        /\ holding' = Acquired(t, r.at)
        /\ last' = Op("acquire_resume", t, AcquireResult(r.at))
        /\ UNCHANGED <<paused, now, exc, ncb, kind, wev, setGhost, misused>>

\* lock.release(), called by a running task
LockRelease(t) ==
    LET r == Release(Heap, t)
    IN  /\ current = t
        /\ pc[t] = "idle"
        /\ Commit(r.h)
        /\ misused' = (misused \/ (r.err = "ok" /\ holding[t] = 0))
        /\ holding' = IF misused' THEN [u \in Tasks |-> 0]
                       ELSE IF r.err = "ok" THEN [holding EXCEPT ![t] = @ - 1]
                       ELSE holding
        /\ last' = Op("release", t, r.err)
        /\ UNCHANGED <<current, to_run, paused, now, pc, exc, ncb, kind, wev, setGhost>>

\* --------------------------------------------- specification: Lock, RLock
InitLock ==
    /\ InitCommon
    /\ InitObjects
    /\ paused = [i \in 1..NTasks |-> i]
    /\ kind \in {"Lock", "RLock"}

NextLock ==
    \/ Repopulate
    \/ \E t \in Tasks : Dispatch(t)
    \/ \E t \in Tasks : Pause(t)
    \/ \E t \in Tasks, blocking \in BOOLEAN : AcquireCall(t, blocking)
    \/ \E t \in Tasks : AcquireResume(t)
    \/ \E t \in Tasks : LockRelease(t)

SpecLock == InitLock /\ [][NextLock]_vars

\* ------------------------------------------------------------- Condition
\* Condition._is_owned: the lock's own _is_owned when it has one (RLock,
\* lines 171-172 and 127-128), else lines 174-177
Cond_is_owned_always(h, t) == [h |-> h, owned |-> TRUE]

Cond_is_owned(h, t) ==
    IF kind = "RLock"
    THEN [h |-> h, owned |-> h.owner = t]
    ELSE LET a == Lock_try(h)
             r == Lock_release(a.h)
         IN  [h |-> r.h, owned |-> ~a.ret]

\* Condition.notify, lines 200-201: popleft().set(), k times
RECURSIVE Notify_loop_lifo(_, _)
Notify_loop_lifo(h, k) ==
    IF k = 0 THEN h
    ELSE LET e == h.waiters[Len(h.waiters)]
         IN  Notify_loop_lifo(
                 Event_set(SetGhost([h EXCEPT !.waiters = SubSeq(@, 1, Len(@) - 1)], e), e),
                 k - 1)

RECURSIVE Notify_loop(_, _)
Notify_loop(h, k) ==
    IF k = 0 THEN h
    ELSE LET e == Head(h.waiters)
         IN  Notify_loop(Event_set(SetGhost([h EXCEPT !.waiters = Tail(@)], e), e), k - 1)

Min(a, b) == IF a <= b THEN a ELSE b

\* Condition.notify(num)
Cond_notify(h, t, num) ==
    LET o == Cond_is_owned(h, t)
    IN  IF ~o.owned
        THEN [h |-> o.h, err |-> "RuntimeError"]
        ELSE [h |-> Notify_loop(o.h, Min(num, Len(o.h.waiters))), err |-> "ok"]

\* Condition.notify_all: its own check, then notify(len(waiters))
Cond_notify_all(h, t) ==
    LET o == Cond_is_owned(h, t)
    IN  IF ~o.owned
        THEN [h |-> o.h, err |-> "RuntimeError"]
        ELSE Cond_notify(o.h, t, Len(o.h.waiters))

\* Condition.wait, lines 183-191, up to the suspension in event.wait
Cond_wait(h, t, timeout) ==
    LET o == Cond_is_owned(h, t)
        r == Release(o.h, t)
        e == r.h.nev + 1
        h2 == [r.h EXCEPT !.nev = e,
                          !.waiters = Append(@, e),
                          !.tcb[e][t] = Append(@, [id |-> 0, raises |-> FALSE,
                                                   removes |-> e])]
    IN  IF ~o.owned THEN [h |-> o.h, err |-> "RuntimeError", ev |-> 0]
        ELSE IF r.err # "ok" THEN [h |-> r.h, err |-> "RuntimeError", ev |-> 0]
        ELSE IF Event_wait_blocks(h2, e)
        THEN [h |-> Event_wait_enter(h2, e, t, timeout), err |-> "blocked", ev |-> e]
        ELSE [h |-> h2, err |-> "not blocked", ev |-> e]

\* history: a release made inside Condition.wait counts like the task's own
Released(t) == [holding EXCEPT ![t] = IF @ > 0 THEN @ - 1 ELSE @]

\* cond.wait(timeout), called by a running task.  A fresh Event is never set,
\* so a wait that gets as far as event.wait suspends.
CondWait(t, timeout) ==
    LET r == Cond_wait(Heap, t, timeout)
    IN  /\ current = t
        /\ pc[t] = "idle"
        /\ nev < UserEvent + MaxWaits
        /\ timeout # None => Len(hit) < MaxTimers
        /\ r.err # "not blocked"
        /\ Commit(r.h)
        /\ IF r.err = "blocked"
           THEN /\ pc' = [pc EXCEPT ![t] = "cond_wait"]
                /\ wev' = [wev EXCEPT ![t] = r.ev]
                /\ current' = 0
                /\ holding' = Released(t)
           ELSE UNCHANGED <<pc, wev, current, holding>>
        /\ last' = Op("cond_wait", t, r.err)
        /\ UNCHANGED <<to_run, paused, now, exc, ncb, kind, setGhost, misused>>

\* The dispatch loop resumes a task suspended in Condition.wait: in event.wait
\* (line 191), after which the lock is acquired again (line 192), or in that
\* acquire's loop.
CondResume(t) ==
    LET r == IF pc[t] = "cond_wait" THEN Acquire(Heap, t, TRUE)
             ELSE Acquire_loop(Heap, t, TRUE)
    IN  /\ current = 0
        /\ to_run # <<>>
        /\ Head(to_run) = t
        /\ pc[t] \in {"cond_wait", "cond_reacq"}
        /\ to_run' = Tail(to_run)
        /\ IF pc[t] = "cond_wait" /\ exc[t] # 0
           THEN \* event.wait raised: wait ends without the lock
                /\ Commit(Heap)
                /\ pc' = [pc EXCEPT ![t] = "idle"]
                /\ current' = t
                /\ exc' = [exc EXCEPT ![t] = 0]
                /\ holding' = holding
                /\ last' = [Op("cond_wait_return", t, "raised") EXCEPT !.err = exc[t]]
           ELSE /\ Commit(r.h)
                /\ pc' = [pc EXCEPT ![t] = CASE r.at = "blocked" -> "cond_reacq"
                                             [] r.at = "spinning" -> "spinning"
                                             [] OTHER -> "idle"]
                /\ current' = IF r.at = "blocked" THEN 0 ELSE t
                /\ exc' = exc
                /\ holding' = Acquired(t, r.at)
                /\ last' = IF r.at = "taken" THEN Op("cond_wait_return", t, "returned")
                           ELSE Op("cond_reacquire", t, AcquireResult(r.at))
        /\ UNCHANGED <<paused, now, ncb, kind, wev, setGhost, misused>>

\* cond.notify(num), called by a running task
CondNotify(t, num) ==
    LET r == Cond_notify(Heap, t, num)
    IN  /\ current = t
        /\ pc[t] = "idle"
        /\ Commit(r.h)
        /\ last' = Op("notify", t, r.err)
        /\ UNCHANGED <<current, to_run, paused, now, pc, exc, ncb, kind, wev,
                       setGhost, lockGhost>>

\* cond.notify_all(), called by a running task
CondNotifyAll(t) ==
    LET r == Cond_notify_all(Heap, t)
    IN  /\ current = t
        /\ pc[t] = "idle"
        /\ Commit(r.h)
        /\ last' = Op("notify_all", t, r.err)
        /\ UNCHANGED <<current, to_run, paused, now, pc, exc, ncb, kind, wev,
                       setGhost, lockGhost>>

\* ------------------------------------------------ specification: Condition
InitCond ==
    /\ InitCommon
    /\ InitObjects
    /\ paused = [i \in 1..NTasks |-> i]
    /\ kind \in {"Lock", "RLock"}

\* A timed Condition.wait is given the timeout 0 here: its timer is due at the
\* next tick, and a notify comes before or after it.
NextCond ==
    \/ Repopulate
    \/ \E t \in Tasks : Dispatch(t)
    \/ \E t \in Tasks : Pause(t)
    \/ \E r \in 1..MaxTimers : r <= Len(hit) /\ hit_timeout(r)
    \/ \E t \in Tasks, blocking \in BOOLEAN : AcquireCall(t, blocking)
    \/ \E t \in Tasks : AcquireResume(t)
    \/ \E t \in Tasks : LockRelease(t)
    \/ \E t \in Tasks, timeout \in {None, 0} : CondWait(t, timeout)
    \/ \E t \in Tasks : CondResume(t)
    \/ \E t \in Tasks, num \in 0..MaxWaits : CondNotify(t, num)
    \/ \E t \in Tasks : CondNotifyAll(t)

SpecCond == InitCond /\ [][NextCond]_vars

\* ---------------------------------------------------------- claims: Event
\* where a task is: each task is in exactly one place
Places(t) ==
    Occurs(to_run \o paused, t) + (IF t \in awoken THEN 1 ELSE 0)
    + (IF current = t THEN 1 ELSE 0) + Occurs(paused_on[UserEvent], t)

\* C4: Event.wait called while the event is signaled returns at once: the
\* caller keeps running, no waiter entry is added and no timer is armed,
\* with or without a timeout.
C4_WaitWhenSetReturns ==
    [][\A t \in Tasks, timeout \in TimeoutChoices :
          (EvWait(t, UserEvent, timeout, 0) /\ is_set[UserEvent])
          => /\ last'.res = "returned"
             /\ current' = t
             /\ pc'[t] = "idle"
             /\ paused_on' = paused_on
             /\ timed_paused' = timed_paused
             /\ hit' = hit
             /\ active' = active]_vars

C4_Witness ==
    /\ last.op = "wait"
    /\ last.res = "returned"
    /\ current = last.t
    /\ is_set[UserEvent]

\* C5: Event.set moves every blocked waiter to the woken set in one step and
\* empties the waiter list; the tasks it woke enter the same snapshot and each
\* is resumed once: none is lost on the way and none is queued twice.
C5_SetStep ==
    \A t \in Tasks :
        EvSet(t, UserEvent)
        => /\ awoken' = awoken \cup Range(paused_on[UserEvent])
           /\ paused_on'[UserEvent] = <<>>

C5_CohortTogether ==
    /\ cohort # {} =>
          IF started
          THEN \A t \in cohort :
                   Occurs(to_run, t) = 1 /\ t \notin awoken /\ pc[t] = "ev_wait"
          ELSE \A t \in cohort :
                   t \in awoken /\ Occurs(to_run, t) = 0 /\ pc[t] = "ev_wait"
    /\ \A t \in 1..NTasks : Places(t) = 1

C5_SetWakesAllOnce == []C5_CohortTogether /\ [][C5_SetStep]_vars

C5_Witness ==
    /\ started
    /\ Cardinality(cohort) >= 2
    /\ cohort \subseteq Range(to_run)

\* C6: the timer of a timed wait that Event.set ended does nothing when it
\* fires: no timeout callback runs, nobody is woken, nothing is raised; the
\* callbacks run only in the step in which a wait ends by its timeout.
C6_CallbacksOnlyOnTimeout ==
    [][/\ \A r \in 1..Len(hit) :
            (hit_timeout(r) /\ wend[r] = "set")
            => /\ last'.ran = <<>>
               /\ awoken' = awoken
               /\ paused_on' = paused_on
               /\ exc' = exc
       /\ last'.ran # <<>> =>
            \E r \in 1..Len(hit) :
                hit_timeout(r) /\ wend[r] = "waiting" /\ wend'[r] = "timeout"]_vars

C6_Witness ==
    /\ last.op = "hit_timeout"
    /\ last.res = "disarmed"
    /\ tcb[UserEvent][last.t] # <<>>
    /\ \E r \in 1..Len(hit) : wend[r] = "set" /\ hit[r].task = last.t
    /\ now = MaxTime

\* C7: when a timed wait ends by timeout, all the callbacks registered for the
\* waiter run, in registration order, also after one of them failed; the first
\* failure, and no other, is what the waiter's wait raises.
FirstFailure(cbs) ==
    LET bad == {i \in 1..Len(cbs) : cbs[i].raises}
    IN  IF bad = {} THEN 0 ELSE cbs[CHOOSE i \in bad : \A j \in bad : i <= j].id

C7_AllCallbacksFirstFailure ==
    [][/\ \A r \in 1..Len(hit) :
            (hit_timeout(r) /\ wend[r] = "waiting" /\ wend'[r] = "timeout")
            => LET cbs == tcb[hit[r].ev][hit[r].task]
               IN  /\ last'.ran = [i \in 1..Len(cbs) |-> cbs[i].id]
                   /\ last'.err = FirstFailure(cbs)
                   /\ FirstFailure(cbs) # 0 => exc'[hit[r].task] = FirstFailure(cbs)
                   /\ FirstFailure(cbs) = 0 => exc' = exc
       /\ \A t \in Tasks :
            WaitReturn(t)
            => /\ last'.err = exc[t]
               /\ last'.res = (IF exc[t] = 0 THEN "returned" ELSE "raised")
       /\ \A t \in Tasks :
            (exc[t] # 0 /\ exc'[t] # exc[t]) => WaitReturn(t)]_vars

C7_Witness ==
    /\ last.op = "wait_return"
    /\ last.res = "raised"
    /\ Len(tcb[UserEvent][last.t]) >= 2
    /\ tcb[UserEvent][last.t][1].raises
    /\ tcb[UserEvent][last.t][2].raises
    /\ last.err = tcb[UserEvent][last.t][1].id

\* ----------------------------------------------------------- claims: Lock
Holders == {t \in Tasks : holding[t] > 0}

\* C1: as long as every release follows the releasing task's own successful
\* acquire, at most one task is between a successful acquire and its release,
\* and a blocking acquire of a lock another task holds suspends the caller: it
\* succeeds only in a state in which the lock is free.
C1_OneHolder ==
    ~misused => /\ Cardinality(Holders) <= 1
                /\ (Holders # {} => locked)

C1_BlockingAcquire ==
    \A t \in Tasks :
        /\ (AcquireCall(t, TRUE) /\ locked /\ ~(kind = "RLock" /\ owner = t))
           => /\ last'.res = "blocked"
              /\ current' = 0
              /\ holding' = holding
        /\ ((AcquireCall(t, TRUE) \/ AcquireResume(t)) /\ last'.res = "True"
            /\ ~(kind = "RLock" /\ owner = t))
           => ~locked /\ Holders = {}

C1_MutualExclusion == []C1_OneHolder /\ [][~misused => C1_BlockingAcquire]_vars

C1_Witness ==
    /\ kind = "Lock"
    /\ ~misused
    /\ last.op = "acquire_resume"
    /\ last.res = "True"
    /\ \E t \in Tasks : t # last.t /\ pc[t] = "lock_acq"

\* C2: on an RLock the owner's acquire succeeds at once and adds one to the
\* depth; the lock is free (not locked, no owner, waiters woken) exactly when
\* the owner's releases balance its acquires; while it is held no other task's
\* acquire succeeds.
C2_Balance ==
    kind = "RLock" =>
        /\ locked = (Holders # {})
        /\ \A t \in Tasks : holding[t] > 0 => owner = t /\ count = holding[t]
        /\ ~locked => owner = None /\ count = 0 /\ paused_on[LockEvent] = <<>>

C2_Steps ==
    kind = "RLock" => \A t \in Tasks :
        /\ \A b \in BOOLEAN :
              (AcquireCall(t, b) /\ owner = t)
              => last'.res = "True" /\ current' = t /\ count' = count + 1
        /\ (LockRelease(t) /\ owner = t /\ locked)
           => IF count = 1
              THEN /\ ~locked'
                   /\ owner' = None
                   /\ awoken' = awoken \cup Range(paused_on[LockEvent])
                   /\ paused_on'[LockEvent] = <<>>
              ELSE /\ locked'
                   /\ owner' = t
                   /\ count' = count - 1
                   /\ awoken' = awoken
                   /\ paused_on' = paused_on
        /\ \A b \in BOOLEAN :
              ((AcquireCall(t, b) \/ AcquireResume(t)) /\ locked /\ owner # t)
              => last'.res \in {"False", "blocked"} /\ owner' = owner /\ count' = count

C2_RLockReentry == []C2_Balance /\ [][C2_Steps]_vars

C2_Witness ==
    /\ kind = "RLock"
    /\ last.op = "release"
    /\ last.res = "ok"
    /\ locked
    /\ count = 1
    /\ owner = last.t
    /\ \E t \in Tasks : pc[t] = "lock_acq"

\* C3: release of a Lock nobody holds, and release of an RLock that is free or
\* that another task holds, raises RuntimeError, changes neither the locked
\* flag nor the owner nor the depth, and wakes nobody.
C3_BadRelease ==
    [][\A t \in Tasks :
          (LockRelease(t) /\ (~locked \/ (kind = "RLock" /\ owner # t)))
          => /\ last'.res = "RuntimeError"
             /\ locked' = locked
             /\ owner' = owner
             /\ count' = count
             /\ awoken' = awoken
             /\ paused_on' = paused_on
             /\ is_set' = is_set]_vars

C3_Witness ==
    /\ kind = "RLock"
    /\ last.op = "release"
    /\ last.res = "RuntimeError"
    /\ locked
    /\ owner # last.t
    /\ paused_on[LockEvent] # <<>>

\* ------------------------------------------------------ claims: Condition
CondOp(t) ==
    \/ \E timeout \in {None, 0} : CondWait(t, timeout)
    \/ \E num \in 0..MaxWaits : CondNotify(t, num)
    \/ CondNotifyAll(t)

\* C8 as stated: wait, notify and notify_all each raise whenever the caller
\* has no acquire of the underlying lock outstanding, on a Lock as on an RLock.
C8_FailWithoutLock ==
    [][\A t \in Tasks : (CondOp(t) /\ holding[t] = 0) => last'.res = "RuntimeError"]_vars

\* C8, amended: wait, notify and notify_all each raise whenever, on an RLock,
\* the caller is not the owner and, on a plain Lock, no task holds the lock.
C8_FailWhenNotOwnedOrFree ==
    [][\A t \in Tasks :
          (CondOp(t) /\ (IF kind = "RLock" THEN owner # t ELSE ~locked))
          => /\ last'.res = "RuntimeError"
             /\ waiters' = waiters
             /\ pc' = pc
             /\ current' = t]_vars

C8_Witness ==
    /\ kind = "RLock"
    /\ last.op = "notify"
    /\ last.res = "RuntimeError"
    /\ locked
    /\ owner # last.t
    /\ waiters # <<>>

\* C9: Condition.wait called by the task that holds the lock, a Lock or an
\* RLock, puts the caller's event in the waiter list, leaves the lock free for
\* others and suspends the caller; when wait returns the caller holds the lock.
C9_WaitReleasesAndReacquires ==
    [][\A t \in Tasks :
          /\ \A timeout \in {None, 0} :
                (CondWait(t, timeout) /\ locked /\ holding[t] > 0
                 /\ (kind = "RLock" => owner = t))
                => /\ last'.res = "blocked"
                   /\ pc'[t] = "cond_wait"
                   /\ wev'[t] \in Range(waiters')
                   /\ ~locked'
          /\ (CondResume(t) /\ last'.op = "cond_wait_return")
             => locked' /\ (kind = "RLock" => owner' = t)]_vars

\* C10: notify(n) wakes, of the w tasks blocked in wait, the min(n, w) that
\* began to wait first and leaves the others blocked; notify_all wakes all w;
\* a waiter whose wait timed out is not among the w and uses up no notify.
BlockedInWait ==
    {t \in Tasks : pc[t] = "cond_wait" /\ t \in Range(paused_on[wev[t]])}

Earliest(k) ==
    {t \in BlockedInWait :
        Cardinality({u \in BlockedInWait : wev[u] < wev[t]}) < k}

WokenBy(chosen) ==
    /\ \A u \in chosen : u \in awoken' /\ u \notin Range(paused_on'[wev[u]])
    /\ \A u \in BlockedInWait \ chosen :
           /\ u \notin awoken'
           /\ u \in Range(paused_on'[wev[u]])
           /\ wev[u] \in Range(waiters')
    /\ pc' = pc

Sem_take_nothing(h) == h

Sem_take(h) == [h EXCEPT !.sem.value = @ - 1]

\* Semaphore.acquire, up to its suspension in event.wait (a fresh Event is
\* never set, so the wait on line 230 suspends)
Sem_acquire(h, t, blocking) ==
    IF h.sem.value # 0 THEN [h |-> Sem_take(h), at |-> "taken"]
    ELSE IF ~blocking THEN [h |-> h, at |-> "refused"]
    ELSE LET e == h.nev + 1
             h2 == [h EXCEPT !.nev = e, !.sem.waiters = Append(@, e)]
         IN  IF Event_wait_blocks(h2, e)
             THEN [h |-> Event_wait_enter(h2, e, t, None), at |-> "blocked"]
             ELSE [h |-> h2, at |-> "taken"]

\* Semaphore.release
Sem_release_newest(h) ==
    IF h.sem.value # 0 \/ h.sem.waiters = <<>>
    THEN [h |-> [h EXCEPT !.sem.value = @ + 1], err |-> "ok"]
    ELSE LET e == h.sem.waiters[Len(h.sem.waiters)]
         IN  [h |-> Event_set([h EXCEPT !.sem.waiters = SubSeq(@, 1, Len(@) - 1)], e),
              err |-> "ok"]

Sem_release(h) ==
    IF h.sem.value # 0 \/ h.sem.waiters = <<>>
    THEN [h |-> [h EXCEPT !.sem.value = @ + 1], err |-> "ok"]
    ELSE LET e == Head(h.sem.waiters)
         IN  [h |-> Event_set([h EXCEPT !.sem.waiters = Tail(@)], e), err |-> "ok"]

\* BoundedSemaphore.release, line 253: the test against the initial value
Bounded_full_above_only(h) == h.sem.value > h.sem.initial

Bounded_full(h) == h.sem.value >= h.sem.initial

\* BoundedSemaphore.release
Bounded_release(h) ==
    IF Bounded_full(h) THEN [h |-> h, err |-> "ValueError"]
    ELSE Sem_release(h)

\* sem.release() of the semaphore object, by its class
Sem_release_of(h) ==
    IF h.sem.kind = "BoundedSemaphore" THEN Bounded_release(h) ELSE Sem_release(h)

\* history: the tasks blocked in acquire, oldest first
BlockedInAcquire == hist.arrival

\* history of an acquire: credit is the initial value plus the releases that
\* found nobody blocked minus the acquires that returned True at once; streak
\* counts the non-blocking acquires that succeeded in a row
AcquireHist(h, t, blocking, at) ==
    [h EXCEPT !.hist.credit = IF at = "taken" THEN @ - 1 ELSE @,
              !.hist.streak = IF at = "taken" /\ ~blocking THEN Min(@ + 1, MaxValue + 1)
                              ELSE IF at = "refused" THEN @ ELSE 0,
              !.hist.arrival = IF at = "blocked" THEN Append(@, t) ELSE @]

\* history of a release: it adds credit when it succeeds with nobody blocked
ReleaseHist(h, err) ==
    [h EXCEPT !.hist.credit = IF err = "ok" /\ hist.arrival = <<>> THEN @ + 1 ELSE @,
              !.hist.streak = 0]

\* sem.acquire(blocking), called by a running task
SemAcquire(t, blocking) ==
    LET r == Sem_acquire(Heap, t, blocking)
    IN  /\ current = t
        /\ pc[t] = "idle"
        /\ (blocking /\ sem.value = 0) => nev < QueueLockEvent + MaxWaits
        /\ Commit(AcquireHist(r.h, t, blocking, r.at))
        /\ pc' = [pc EXCEPT ![t] = IF r.at = "blocked" THEN "sem_acq" ELSE "idle"]
        /\ current' = IF r.at = "blocked" THEN 0 ELSE t
        /\ last' = Op("sem_acquire", t, AcquireResult(r.at))
        /\ UNCHANGED <<to_run, paused, now, exc, ncb, kind, wev, setGhost, lockGhost>>

\* The dispatch loop resumes a task suspended in acquire: it returns True.
SemResume(t) ==
    /\ current = 0
    /\ to_run # <<>>
    /\ Head(to_run) = t
    /\ pc[t] = "sem_acq"
    /\ to_run' = Tail(to_run)
    /\ current' = t
    /\ pc' = [pc EXCEPT ![t] = "idle"]
    /\ last' = Op("sem_acquire_return", t, "True")
    /\ UNCHANGED <<paused, awoken, timed_paused, paused_on, now, exc, eventVars,
                   lockVars, condVars, wend, setGhost, lockGhost, objVars>>

\* sem.release(), called by a running task
SemRelease(t) ==
    LET r == Sem_release_of(Heap)
        woken == r.h.awoken \ awoken
    IN  /\ current = t
        /\ pc[t] = "idle"
        /\ (sem.kind = "Semaphore") => sem.value < MaxValue
        /\ Commit([ReleaseHist(r.h, r.err) EXCEPT
                       !.hist.arrival = SelectSeq(@, LAMBDA u : u \notin woken)])
        /\ last' = Op("sem_release", t, r.err)
        /\ UNCHANGED <<current, to_run, paused, now, pc, exc, ncb, kind, wev,
                       setGhost, lockGhost>>

\* ------------------------------------------------ specification: Semaphore
InitSem ==
    /\ InitCommon
    /\ paused = [i \in 1..NTasks |-> i]
    /\ kind = "Lock"
    /\ \E k \in {"Semaphore", "BoundedSemaphore"}, v \in 0..MaxValue :
           /\ sem = [kind |-> k, value |-> v, initial |-> v, waiters |-> <<>>]
           /\ hist = [spec |-> "sem", credit |-> v, streak |-> 0, arrival |-> <<>>]
    /\ queue = NoQueue
    /\ timer = NoTimer
    /\ poller = NoPoller
    /\ chan = NoChan

NextSem ==
    \/ Repopulate
    \/ \E t \in Tasks : Dispatch(t)
    \/ \E t \in Tasks : Pause(t)
    \/ \E t \in Tasks, blocking \in BOOLEAN : SemAcquire(t, blocking)
    \/ \E t \in Tasks : SemResume(t)
    \/ \E t \in Tasks : SemRelease(t)

SpecSem == InitSem /\ [][NextSem]_vars

\* ----------------------------------------------------- claims: Semaphore
\* C11: with nobody blocked, the counter is the initial value plus the
\* releases minus the successful acquires, and a non-blocking acquire succeeds
\* exactly while that number is positive: after n releases v + n succeed in a
\* row, and the next returns False and leaves the counter as it was.
C11_Counter == (hist.arrival = <<>>) => sem.value = hist.credit

C11_TrySteps ==
    [][\A t \in Tasks :
          SemAcquire(t, FALSE) =>
              /\ (last'.res = "True") = (hist.credit > 0)
              /\ last'.res \in {"True", "False"}
              /\ last'.res = "True" => sem'.value = sem.value - 1
              /\ last'.res = "False" => sem' = sem /\ current' = t]_vars

C11_SemaphoreCounting == []C11_Counter /\ C11_TrySteps

\* the (v + n + 1)th try fails after v + n = 2 successes in a row, of which at
\* least one was paid for by a release
C11_Witness ==
    /\ last.op = "sem_acquire"
    /\ last.res = "False"
    /\ hist.streak = 2
    /\ sem.initial < 2
    /\ sem.kind = "Semaphore"

\* C12: a blocking acquire at counter 0 suspends the caller; a release that
\* returns normally either wakes exactly one blocked acquirer, the one blocked
\* longest, and leaves the counter alone, or, with nobody blocked, adds one to
\* the counter and wakes nobody.  A plain Semaphore's release always returns
\* normally.
C12_Blocks ==
    [][\A t \in Tasks :
          (SemAcquire(t, TRUE) /\ sem.value = 0) =>
              /\ last'.res = "blocked"
              /\ current' = 0
              /\ pc'[t] = "sem_acq"
              /\ sem'.value = 0
              /\ hist'.arrival = Append(hist.arrival, t)]_vars

C12_ReleaseSteps ==
    [][\A t \in Tasks :
          (SemRelease(t) /\ last'.res = "ok") =>
              IF hist.arrival # <<>>
              THEN /\ awoken' = awoken \cup {Head(hist.arrival)}
                   /\ Head(hist.arrival) \notin awoken
                   /\ sem'.value = sem.value
              ELSE /\ awoken' = awoken
                   /\ sem'.value = sem.value + 1]_vars

C12_PlainNeverFails ==
    [][\A t \in Tasks :
          (SemRelease(t) /\ sem.kind = "Semaphore") => last'.res = "ok"]_vars

C12_ReleaseWakesOldestOrCounts == C12_Blocks /\ C12_ReleaseSteps /\ C12_PlainNeverFails

\* a release has woken the older of two blocked acquirers
C12_Witness ==
    /\ last.op = "sem_release"
    /\ last.res = "ok"
    /\ Len(hist.arrival) = 1
    /\ awoken # {}
    /\ sem.value = 0

\* C13: BoundedSemaphore.release with the counter at or above the initial
\* value fails and changes nothing, so the counter never exceeds the initial
\* value.
C13_Bound == (sem.kind = "BoundedSemaphore") => sem.value <= sem.initial

C13_FailSteps ==
    [][\A t \in Tasks :
          (SemRelease(t) /\ sem.kind = "BoundedSemaphore" /\ sem.value >= sem.initial) =>
              /\ last'.res = "ValueError"
              /\ sem' = sem
              /\ awoken' = awoken
              /\ paused_on' = paused_on
              /\ is_set' = is_set]_vars

C13_BoundedRelease == []C13_Bound /\ C13_FailSteps

\* a release was refused at the initial value after the counter had moved
C13_Witness ==
    /\ last.op = "sem_release"
    /\ last.res = "ValueError"
    /\ sem.kind = "BoundedSemaphore"
    /\ sem.value = sem.initial
    /\ sem.initial > 0
    /\ nev > QueueLockEvent

\* ================================================================ Queue
\* A Queue owns two Conditions, not_empty and not_full, each on an RLock of
\* its own, and the Event all_tasks_done.  The Condition and RLock operators
\* above work on the lock and waiters of one Condition: Load puts a Queue's
\* Condition in their place (its lock's Event under LockEvent) and Store puts
\* the result back.
all_tasks_done == UserEvent

Sw(c, e) ==
    IF c = "not_empty" THEN e
    ELSE IF e = LockEvent THEN QueueLockEvent
    ELSE IF e = QueueLockEvent THEN LockEvent
    ELSE e

SwapEvents(h, c) ==
    [h EXCEPT !.is_set = [e \in EventIds |-> h.is_set[Sw(c, e)]],
              !.paused_on = [e \in EventIds |-> h.paused_on[Sw(c, e)]],
              !.active = [e \in EventIds |-> h.active[Sw(c, e)]],
              !.tcb = [e \in EventIds |-> h.tcb[Sw(c, e)]]]

Load(h, c) ==
    [SwapEvents(h, c) EXCEPT !.locked = h.queue[c].locked,
                             !.owner = h.queue[c].owner,
                             !.count = h.queue[c].count,
                             !.waiters = h.queue[c].waiters]

Store(h0, hv, c) ==
    [SwapEvents(hv, c) EXCEPT
        !.queue[c] = [locked |-> hv.locked, owner |-> hv.owner,
                      count |-> hv.count, waiters |-> hv.waiters],
        !.locked = h0.locked, !.owner = h0.owner,
        !.count = h0.count, !.waiters = h0.waiters]

\* `with cond: cond.notify()` (lines 330-331, 361-362)
With_notify(h, t, c) ==
    LET Notified(a, n) ==
            IF n.err # "ok" THEN [h |-> Store(h, Release(n.h, t).h, c), res |-> n.err]
            ELSE LET Left(r) == [h |-> Store(h, r.h, c), res |-> r.err]
                 IN  Left(Release(n.h, t))
        Entered(a) ==
            IF a.at # "taken" THEN [h |-> Store(h, a.h, c), res |-> "stuck"]
            ELSE Notified(a, Cond_notify(a.h, t, 1))
    IN  Entered(Acquire(Load(h, c), t, TRUE))

\* `with cond: cond.wait(timeout)` (lines 345-346, 380-381) up to the
\* suspension in event.wait
With_wait_enter(h, t, c, timeout) ==
    LET Waiting(w) == [h |-> Store(h, w.h, c), res |-> w.err]
        Entered(a) ==
            IF a.at # "taken" THEN [h |-> Store(h, a.h, c), res |-> "stuck"]
            ELSE Waiting(Cond_wait(a.h, t, timeout))
    IN  Entered(Acquire(Load(h, c), t, TRUE))

\* the rest of it once event.wait has returned: the lock is acquired again
\* (line 192) and the with block releases it
With_wait_leave(h, t, c) ==
    LET Left(r) == [h |-> Store(h, r.h, c), res |-> r.err]
        Entered(a) ==
            IF a.at # "taken" THEN [h |-> Store(h, a.h, c), res |-> "stuck"]
            ELSE Left(Release(a.h, t))
    IN  Entered(Acquire(Load(h, c), t, TRUE))

\* Queue._unsafe_get
Unsafe_get(h, t) ==
    LET Pop(n) ==
            IF n.res # "ok" THEN [h |-> n.h, res |-> n.res, item |-> 0]
            ELSE [h |-> [n.h EXCEPT !.queue.queue = Tail(@)], res |-> "item",
                  item |-> Head(n.h.queue.queue)]
    IN  Pop(With_notify(h, t, "not_full"))

\* Queue._unsafe_put, lines 364-365: all_tasks_done is cleared when the count
\* leaves zero
Unsafe_put_never_clearing(h) == h

Unsafe_put_clear(h) ==
    IF h.queue.unfinished_tasks = 0 THEN Event_clear(h, all_tasks_done) ELSE h

\* Queue._unsafe_put: where the item goes
Enqueue_front(q, item) == <<item>> \o q

Enqueue(q, item) == Append(q, item)

\* Queue._unsafe_put
Unsafe_put(h, t, item) ==
    LET Count(h2) == [h |-> [h2 EXCEPT !.queue.unfinished_tasks = @ + 1], res |-> "ok"]
        Push(n) ==
            IF n.res # "ok" THEN [h |-> n.h, res |-> n.res]
            ELSE Count(Unsafe_put_clear([n.h EXCEPT !.queue.queue = Enqueue(@, item)]))
    IN  Push(With_notify(h, t, "not_empty"))

\* Queue.get, up to its return or its suspension
Queue_get(h, t, blocking, timeout) ==
    LET Waiting(w) == [h |-> w.h, res |-> w.res, item |-> 0]
    IN  IF h.queue.queue = <<>>
        THEN IF blocking
             THEN Waiting(With_wait_enter(h, t, "not_empty", timeout))
             ELSE [h |-> h, res |-> "Empty", item |-> 0]
        ELSE Unsafe_get(h, t)

\* Queue.get, lines 346-349, once the wait has returned
Queue_get_resumed(h, t) ==
    LET Woken(w) ==
            IF w.res # "ok" THEN [h |-> w.h, res |-> w.res, item |-> 0]
            ELSE IF w.h.queue.queue # <<>> THEN Unsafe_get(w.h, t)
            ELSE [h |-> w.h, res |-> "Empty", item |-> 0]
    IN  Woken(With_wait_leave(h, t, "not_empty"))

\* Queue.put line 378, Queue.full: no room
Queue_is_full_above_only(h) ==
    h.queue.maxsize # 0 /\ Len(h.queue.queue) > h.queue.maxsize

Queue_is_full(h) ==
    h.queue.maxsize # 0 /\ Len(h.queue.queue) >= h.queue.maxsize

\* Queue.put, up to its return or its suspension
Queue_put(h, t, item, blocking, timeout) ==
    IF Queue_is_full(h)
    THEN IF blocking
         THEN With_wait_enter(h, t, "not_full", timeout)
         ELSE [h |-> h, res |-> "Full"]
    ELSE Unsafe_put(h, t, item)

\* Queue.put, lines 381-384, with no test for room after the wait
Queue_put_resumed_unchecked(h, t, item) ==
    LET Put(p) ==
            IF p.res # "ok" THEN [h |-> p.h, res |-> p.res, put |-> FALSE]
            ELSE [h |-> p.h, res |-> "Full", put |-> TRUE]
        Woken(w) ==
            IF w.res # "ok" THEN [h |-> w.h, res |-> w.res, put |-> FALSE]
            ELSE Put(Unsafe_put(w.h, t, item))
    IN  Woken(With_wait_leave(h, t, "not_full"))

\* Queue.put, lines 381-384, once the wait has returned: the item is put if
\* there is room, and line 384 is reached either way
Queue_put_resumed(h, t, item) ==
    LET Put(p) ==
            IF p.res # "ok" THEN [h |-> p.h, res |-> p.res, put |-> FALSE]
            ELSE [h |-> p.h, res |-> "Full", put |-> TRUE]
        Woken(w) ==
            IF w.res # "ok" THEN [h |-> w.h, res |-> w.res, put |-> FALSE]
            ELSE IF Len(w.h.queue.queue) < w.h.queue.maxsize
            THEN Put(Unsafe_put(w.h, t, item))
            ELSE [h |-> w.h, res |-> "Full", put |-> FALSE]
    IN  Woken(With_wait_leave(h, t, "not_full"))

\* Queue.task_done with no test for a count of zero
Queue_task_done_unchecked(h) ==
    LET Done(h1) ==
            [h |-> IF h1.queue.unfinished_tasks = 0
                   THEN Event_set(h1, all_tasks_done) ELSE h1,
             res |-> "ok"]
    IN  Done([h EXCEPT !.queue.unfinished_tasks = @ - 1])

\* Queue.task_done
Queue_task_done(h) ==
    LET Done(h1) ==
            [h |-> IF h1.queue.unfinished_tasks = 0
                   THEN Event_set(h1, all_tasks_done) ELSE h1,
             res |-> "ok"]
    IN  IF h.queue.unfinished_tasks = 0 THEN [h |-> h, res |-> "ValueError"]
        ELSE Done([h EXCEPT !.queue.unfinished_tasks = @ - 1])

\* where a call leaves its caller
QueuePc(res, waiting) ==
    CASE res = "blocked" -> waiting
      [] res = "stuck" -> "stuck"
      [] OTHER -> "idle"

\* queue.get(blocking, timeout), called by a running task
QueueGet(t, blocking, timeout) ==
    /\ current = t
    /\ pc[t] = "idle"
    /\ (queue.queue = <<>> /\ blocking) =>
           /\ nev < QueueLockEvent + MaxWaits
           /\ timeout # None => Len(hit) < MaxTimers
    /\ \E r \in {Queue_get(Heap, t, blocking, timeout)} :
           /\ r.res # "not blocked"
           /\ Commit([r.h EXCEPT
                  !.hist.gotlog = IF r.res = "item" THEN Append(@, r.item) ELSE @,
                  !.hist.timed[t] = (r.res = "blocked" /\ timeout # None)])
           /\ pc' = [pc EXCEPT ![t] = QueuePc(r.res, "get_wait")]
           /\ current' = IF r.res \in {"blocked", "stuck"} THEN 0 ELSE t
           /\ last' = Op("get", t, r.res)
           /\ UNCHANGED <<to_run, paused, now, exc, ncb, kind, wev, setGhost, lockGhost>>

\* The dispatch loop resumes a task suspended in get.
GetResume(t) ==
    /\ current = 0
    /\ to_run # <<>>
    /\ Head(to_run) = t
    /\ pc[t] = "get_wait"
    /\ \E r \in {Queue_get_resumed(Heap, t)} :
           /\ to_run' = Tail(to_run)
           /\ exc' = [exc EXCEPT ![t] = 0]
           /\ IF exc[t] # 0
              THEN /\ Commit(Heap)
                   /\ pc' = [pc EXCEPT ![t] = "idle"]
                   /\ current' = t
                   /\ last' = [Op("get_return", t, "raised") EXCEPT !.err = exc[t]]
              ELSE /\ Commit([r.h EXCEPT
                          !.hist.gotlog = IF r.res = "item" THEN Append(@, r.item) ELSE @])
                   /\ pc' = [pc EXCEPT ![t] = QueuePc(r.res, "get_wait")]
                   /\ current' = IF r.res = "stuck" THEN 0 ELSE t
                   /\ last' = Op("get_return", t, r.res)
           /\ UNCHANGED <<paused, now, ncb, kind, wev, setGhost, lockGhost>>

\* queue.put(item, blocking, timeout), called by a running task; the items
\* put are 1, 2, ... in the order of the calls
QueuePut(t, blocking, timeout) ==
    LET item == hist.nput + 1
    IN  /\ current = t
        /\ pc[t] = "idle"
        /\ hist.nput < MaxItems
        /\ (Queue_is_full(Heap) /\ blocking) =>
               /\ nev < QueueLockEvent + MaxWaits
               /\ timeout # None => Len(hit) < MaxTimers
        /\ \E r \in {Queue_put(Heap, t, item, blocking, timeout)} :
               /\ r.res # "not blocked"
               /\ Commit([r.h EXCEPT
                      !.queue.arg[t] = IF r.res = "blocked" THEN item ELSE @,
                      !.hist.nput = item,
                      !.hist.putlog = IF r.res = "ok" THEN Append(@, item) ELSE @,
                      !.hist.timed[t] = (r.res = "blocked" /\ timeout # None)])
               /\ pc' = [pc EXCEPT ![t] = QueuePc(r.res, "put_wait")]
               /\ current' = IF r.res \in {"blocked", "stuck"} THEN 0 ELSE t
               /\ last' = Op("put", t, r.res)
               /\ UNCHANGED <<to_run, paused, now, exc, ncb, kind, wev, setGhost, lockGhost>>

\* The dispatch loop resumes a task suspended in put.
PutResume(t) ==
    /\ current = 0
    /\ to_run # <<>>
    /\ Head(to_run) = t
    /\ pc[t] = "put_wait"
    /\ \E r \in {Queue_put_resumed(Heap, t, queue.arg[t])} :
           /\ to_run' = Tail(to_run)
           /\ exc' = [exc EXCEPT ![t] = 0]
           /\ IF exc[t] # 0
              THEN /\ Commit([Heap EXCEPT !.queue.arg[t] = 0])
                   /\ pc' = [pc EXCEPT ![t] = "idle"]
                   /\ current' = t
                   /\ last' = [Op("put_return", t, "raised") EXCEPT !.err = exc[t]]
              ELSE /\ Commit([r.h EXCEPT
                          !.queue.arg[t] = 0,
                          !.hist.putlog = IF r.put THEN Append(@, queue.arg[t]) ELSE @])
                   /\ pc' = [pc EXCEPT ![t] = QueuePc(r.res, "put_wait")]
                   /\ current' = IF r.res = "stuck" THEN 0 ELSE t
                   /\ last' = [Op("put_return", t, r.res) EXCEPT
                                  !.ran = IF r.put THEN <<queue.arg[t]>> ELSE <<>>]
           /\ UNCHANGED <<paused, now, ncb, kind, wev, setGhost, lockGhost>>

\* queue.task_done(), called by a running task
QueueTaskDone(t) ==
    /\ current = t
    /\ pc[t] = "idle"
    /\ \E r \in {Queue_task_done(Heap)} :
           /\ Commit(r.h)
           /\ last' = Op("task_done", t, r.res)
           /\ UNCHANGED <<current, to_run, paused, now, pc, exc, ncb, kind, wev,
                          setGhost, lockGhost>>

\* queue.join(): all_tasks_done.wait()
QueueJoin(t) == EvWait(t, all_tasks_done, None, 0)

\* The dispatch loop resumes a task suspended in join.
JoinReturn(t) == WaitReturn(t)

\* hit_timeout of a timed Condition.wait made by get or put: as hit_timeout
\* above, the callback being the timeout_cback of the Queue's Condition
queue_hit_timeout(r) ==
    LET e == hit[r].ev
        t == hit[r].task
        c == IF pc[t] = "put_wait" THEN "not_full" ELSE "not_empty"
        out == Run_callbacks(tcb[e][t],
                   [w |-> queue[c].waiters, ran |-> <<>>, error |-> 0, stopped |-> FALSE])
    IN  /\ current = 0
        /\ to_run # <<>>
        /\ Head(to_run) = 0 - r
        /\ to_run' = Tail(to_run)
        /\ IF ~Hit_timeout_armed(Heap, r)
           THEN /\ last' = Op("hit_timeout", t, "disarmed")
                /\ UNCHANGED <<paused_on, awoken, exc, wend, queue>>
           ELSE IF t \notin Range(paused_on[e])
           THEN /\ last' = [Op("hit_timeout", t, "raised") EXCEPT !.err = ValueErr]
                /\ exc' = Propagate(t, ValueErr)
                /\ UNCHANGED <<paused_on, awoken, wend, queue>>
           ELSE /\ paused_on' = [paused_on EXCEPT ![e] = RemoveFirst(@, t)]
                /\ awoken' = awoken \cup {t}
                /\ wend' = [wend EXCEPT ![r] = "timeout"]
                /\ queue' = [queue EXCEPT ![c].waiters = out.w]
                /\ last' = [op |-> "hit_timeout", t |-> t,
                            res |-> IF out.error = 0 THEN "fired" ELSE "raised",
                            ran |-> out.ran, err |-> out.error]
                /\ exc' = IF out.error # 0 THEN Propagate(t, out.error) ELSE exc
        /\ UNCHANGED <<current, paused, timed_paused, now, pc, eventVars,
                       lockVars, condVars, setGhost, lockGhost,
                       sem, timer, poller, chan, hist>>

\* ---------------------------------------------------- specification: Queue
InitQueue ==
    /\ current = 0
    /\ to_run = <<>>
    /\ paused = [i \in 1..TmTasks |-> i]
    /\ awoken = {}
    /\ timed_paused = <<>>
    /\ paused_on = [e \in EventIds |-> <<>>]
    /\ now = 0
    /\ pc = [t \in Tasks |-> "idle"]
    /\ exc = [t \in Tasks |-> 0]
    /\ is_set = [e \in EventIds |-> e = all_tasks_done]
    /\ tcb = [e \in EventIds |-> [t \in Tasks |-> <<>>]]
    /\ active = [e \in EventIds |-> {}]
    /\ hit = <<>>
    /\ ncb = 0
    /\ nev = QueueLockEvent
    /\ kind = "RLock"
    /\ locked = FALSE
    /\ owner = None
    /\ count = 0
    /\ waiters = <<>>
    /\ wev = [t \in Tasks |-> 0]
    /\ sem = NoSem
    /\ \E m \in 0..MaxSize :
           queue = [maxsize |-> m, queue |-> <<>>, unfinished_tasks |-> 0,
                    not_empty |-> NoLock, not_full |-> NoLock,
                    arg |-> [t \in Tasks |-> 0]]
    /\ timer = NoTimer
    /\ poller = NoPoller
    /\ chan = NoChan
    /\ hist = [spec |-> "queue", nput |-> 0, putlog |-> <<>>, gotlog |-> <<>>,
               timed |-> [t \in Tasks |-> FALSE]]
    /\ last = NoOp
    /\ wend = <<>>
    /\ cohort = {}
    /\ started = FALSE
    /\ holding = [t \in Tasks |-> 0]
    /\ misused = FALSE

NextQueue ==
    \/ Repopulate
    \/ \E t \in Tasks : Dispatch(t)
    \/ \E t \in Tasks : Pause(t)
    \/ \E r \in 1..MaxTimers : r <= Len(hit) /\ queue_hit_timeout(r)
    \/ \E t \in Tasks, blocking \in BOOLEAN, timeout \in {None, 0} :
           QueueGet(t, blocking, timeout)
    \/ \E t \in Tasks : GetResume(t)
    \/ \E t \in Tasks, blocking \in BOOLEAN, timeout \in {None, 0} :
           QueuePut(t, blocking, timeout)
    \/ \E t \in Tasks : PutResume(t)
    \/ \E t \in Tasks : QueueTaskDone(t)
    \/ \E t \in Tasks : QueueJoin(t)
    \/ \E t \in Tasks : JoinReturn(t)

SpecQueue == InitQueue /\ [][NextQueue]_vars

\* every lock of the Queue is free whenever a task is resumed, so no call
\* waits for one
QueueNeverStuck == \A t \in Tasks : pc[t] # "stuck" /\ last.res \notin {"RuntimeError", "raised"}

\* --------------------------------------------------------- claims: Queue
\* C14: the values gets have returned, followed by the values still stored,
\* are the values put, in the order they were put: gets return them in that
\* order, each at most once, and nothing that was not put.
C14_QueueFifo == hist.gotlog \o queue.queue = hist.putlog

\* two values that were stored together have both been returned
C14_Witness ==
    /\ Len(hist.gotlog) >= 2
    /\ queue.maxsize # 1
    /\ last.op \in {"get", "get_return"}
    /\ last.res = "item"

\* C15: a put suspended on a full bounded Queue that is resumed when there is
\* room enqueues its item once and returns normally, without raising Full.
C15_BlockedPutCompletes ==
    [][\A t \in Tasks :
          (PutResume(t) /\ exc[t] = 0 /\ Len(queue.queue) < queue.maxsize) =>
              /\ queue'.queue = Append(queue.queue, queue.arg[t])
              /\ last'.res = "ok"]_vars

\* C16: a get with no timeout that suspended returns an item when it is
\* resumed; it does not raise Empty.
C16_BlockingGetReturnsItem ==
    [][\A t \in Tasks :
          (GetResume(t) /\ exc[t] = 0 /\ ~hist.timed[t]) =>
              last'.res = "item"]_vars

\* C17: put with blocking=False on a full bounded Queue raises Full at once:
\* the caller keeps running, and the contents, the unfinished-task count, the
\* done event and every waiter are as before.
C17_PutNowaitFull ==
    [][\A t \in Tasks, timeout \in {None, 0} :
          (/\ QueuePut(t, FALSE, timeout)
           /\ queue.maxsize > 0
           /\ Len(queue.queue) = queue.maxsize) =>
              /\ last'.res = "Full"
              /\ current' = t
              /\ pc'[t] = "idle"
              /\ queue' = queue
              /\ is_set' = is_set
              /\ paused_on' = paused_on
              /\ awoken' = awoken
              /\ timed_paused' = timed_paused]_vars

\* a non-blocking put was refused while a getter-side waiter could have been
\* notified: a task is suspended and the queue is full
C17_Witness ==
    /\ last.op = "put"
    /\ last.res = "Full"
    /\ current = last.t
    /\ Len(queue.queue) = queue.maxsize
    /\ \E t \in Tasks : pc[t] \in {"put_wait", "ev_wait"}

\* C18: all_tasks_done is set exactly while the unfinished-task count is
\* zero; join returns at once when the count is zero and suspends when it is
\* positive; and a task suspended in join leaves the event's waiters only in
\* a task_done step that brings the count to zero, which wakes all of them.
Joiners == Range(paused_on[all_tasks_done])

C18_DoneIffZero == is_set[all_tasks_done] <=> (queue.unfinished_tasks = 0)

C18_JoinPlaces ==
    \A t \in Tasks :
        pc[t] = "ev_wait" =>
            (IF t \in Joiners THEN 1 ELSE 0) + (IF t \in awoken THEN 1 ELSE 0)
                + Occurs(to_run, t) = 1

C18_JoinSteps ==
    [][\A t \in Tasks :
          QueueJoin(t) =>
              IF queue.unfinished_tasks = 0
              THEN last'.res = "returned" /\ current' = t
              ELSE last'.res = "blocked" /\ current' = 0 /\ t \in Range(paused_on'[all_tasks_done])]_vars

C18_WakeSteps ==
    [][/\ (Joiners \ Range(paused_on'[all_tasks_done]) # {}) =>
              /\ last'.op = "task_done"
              /\ queue.unfinished_tasks = 1
              /\ queue'.unfinished_tasks = 0
       /\ (last'.op = "task_done" /\ last'.res = "ok" /\ queue'.unfinished_tasks = 0 /\ last' # last) =>
              /\ paused_on'[all_tasks_done] = <<>>
              /\ Joiners \subseteq awoken']_vars

C18_JoinResumes ==
    [][\A t \in Tasks : JoinReturn(t) => last'.res = "returned"]_vars

C18_JoinWaitsForZero ==
    /\ []C18_DoneIffZero
    /\ []C18_JoinPlaces
    /\ C18_JoinSteps
    /\ C18_WakeSteps
    /\ C18_JoinResumes

\* a task that was suspended in join has resumed, after a get left the count
\* positive and a task_done brought it to zero
C18_Witness ==
    /\ last.op = "wait_return"
    /\ last.res = "returned"
    /\ hist.gotlog # <<>>
    /\ queue.unfinished_tasks = 0

\* ================================================================ Timer
\* The timer set holds (waketime, greenlet) tuples.  Python orders tuples by
\* the wake time and then by the greenlets, which compare by address: addr
\* gives each Timer's greenlet its place in that order.
Tuple_less_or_equal(addr, x, y) ==
    x[1] < y[1] \/ (x[1] = y[1] /\ addr[x[2]] <= addr[y[2]])

Tuple_less(addr, x, y) ==
    x[1] < y[1] \/ (x[1] = y[1] /\ addr[x[2]] < addr[y[2]])

\* bisect.bisect (bisect_right): the binary search, on 0-based lo and hi
RECURSIVE Bisect(_, _, _, _, _)
Bisect(addr, a, x, lo, hi) ==
    IF lo < hi
    THEN LET mid == (lo + hi) \div 2
         IN  IF Tuple_less(addr, x, a[mid + 1])
             THEN Bisect(addr, a, x, lo, mid)
             ELSE Bisect(addr, a, x, mid + 1, hi)
    ELSE lo

\* bisect.insort
Insort(addr, a, x) ==
    LET At(i) == SubSeq(a, 1, i) \o <<x>> \o SubSeq(a, i + 1, Len(a))
    IN  At(Bisect(addr, a, x, 0, Len(a)))

\* Timer.__init__(secs, func): the new greenlet joins the timer set
Timer_init(h, secs) ==
    LET g == Len(h.timer.objs) + 1
        waketime == now + secs
    IN  [h EXCEPT !.timer.objs = Append(@, [waketime |-> waketime]),
                  !.timer.ran = Append(@, 0),
                  !.timed_paused = Insort(h.timer.addr, @, <<waketime, g>>)]

\* Timer.cancel.  A negative index counts from the end of the list, and the
\* slice tp[-1:0] is empty.
Timer_cancel(h, g) ==
    LET tp == h.timed_paused
        Cut(index) ==
            LET at == IF index < 0 THEN index + Len(tp) ELSE index
            IN  IF tp[at + 1][2] = g /\ index >= 0
                THEN [h EXCEPT !.timed_paused =
                         SubSeq(tp, 1, index) \o SubSeq(tp, index + 2, Len(tp))]
                ELSE h
    IN  IF tp = <<>> THEN h
        ELSE Cut(Bisect(h.timer.addr, tp, <<h.timer.objs[g].waketime, g>>, 0, Len(tp)) - 1)

\* the dispatch loop has taken the timer out of the timer set
Popped(g) == (0 - g) \in Range(to_run) \/ timer.ran[g] > 0

\* Timer(secs, func), called by a running task
TimerCreate(t, secs) ==
    /\ current = t
    /\ pc[t] = "idle"
    /\ Len(timer.objs) < MaxTimerObjs
    /\ now + secs <= MaxTime
    /\ Commit([Timer_init(Heap, secs) EXCEPT !.hist.cancelled = Append(@, FALSE)])
    /\ last' = Op("Timer", t, "ok")
    /\ UNCHANGED <<current, to_run, paused, now, pc, exc, ncb, kind, wev,
                   setGhost, lockGhost>>

\* timer.cancel(), called by a running task
TimerCancel(t, g) ==
    /\ current = t
    /\ pc[t] = "idle"
    /\ g <= Len(timer.objs)
    /\ Commit([Timer_cancel(Heap, g) EXCEPT
                   !.hist.cancelled[g] = @ \/ ~Popped(g)])
    /\ last' = Op("cancel", t, "ok")
    /\ UNCHANGED <<current, to_run, paused, now, pc, exc, ncb, kind, wev,
                   setGhost, lockGhost>>

\* Timer._run: the dispatch loop switches to the timer's greenlet, which
\* calls func and ends
TimerRun(g) ==
    /\ current = 0
    /\ to_run # <<>>
    /\ Head(to_run) = 0 - g
    /\ to_run' = Tail(to_run)
    /\ timer' = [timer EXCEPT !.ran[g] = @ + 1]
    /\ last' = Op("Timer._run", 0, "ok")
    /\ UNCHANGED <<current, paused, awoken, timed_paused, paused_on, now, pc, exc,
                   eventVars, lockVars, condVars, wend, setGhost, lockGhost,
                   sem, queue, poller, chan, hist>>

\* ---------------------------------------------------- specification: Timer
InitTimer ==
    /\ InitCommon
    /\ paused = [i \in 1..TmTasks |-> i]
    /\ kind = "Lock"
    /\ sem = NoSem
    /\ queue = NoQueue
    /\ \E addr \in Orderings(1..MaxTimerObjs) :
           timer = [objs |-> <<>>, addr |-> addr, ran |-> <<>>]
    /\ poller = NoPoller
    /\ chan = NoChan
    /\ hist = [spec |-> "timer", cancelled |-> <<>>]

NextTimer ==
    \/ Repopulate
    \/ AdvanceTime
    \/ \E t \in Tasks : Dispatch(t)
    \/ \E t \in Tasks : Pause(t)
    \/ \E t \in Tasks, secs \in 0..MaxTime : TimerCreate(t, secs)
    \/ \E t \in Tasks, g \in 1..MaxTimerObjs : TimerCancel(t, g)
    \/ \E g \in 1..MaxTimerObjs : g <= Len(timer.objs) /\ TimerRun(g)

\* The dispatch loop keeps running and the clock keeps advancing.
SpecTimer ==
    InitTimer /\ [][NextTimer]_vars /\ WF_vars(NextTimer) /\ SF_vars(AdvanceTime)

\* --------------------------------------------------------- claims: Timer
TimerIds == 1..Len(timer.objs)

InTimerSet(g) == \E i \in 1..Len(timed_paused) : timed_paused[i][2] = g

\* C19: a Timer cancelled before the dispatch loop took it out of the timer
\* set never runs its function, however far the clock advances; a Timer runs
\* its function at most once and not before its wake time; and a Timer that
\* is not cancelled in time does run it.
C19_CancelledNeverRuns ==
    \A g \in TimerIds :
        hist.cancelled[g] => timer.ran[g] = 0 /\ ~Popped(g) /\ ~InTimerSet(g)

C19_RunsOnceAfterDeadline ==
    \A g \in TimerIds :
        /\ timer.ran[g] <= 1
        /\ Popped(g) => now >= timer.objs[g].waketime

C19_EventuallyRuns ==
    \A g \in 1..MaxTimerObjs :
        (g \in TimerIds) ~> (g \in TimerIds /\ (hist.cancelled[g] \/ timer.ran[g] = 1))

C19_TimerCancel ==
    /\ []C19_CancelledNeverRuns
    /\ []C19_RunsOnceAfterDeadline
    /\ C19_EventuallyRuns

\* of two Timers with the same wake time one was cancelled after the clock
\* passed the deadline and the other has run
C19_Witness ==
    /\ Len(timer.objs) = 2
    /\ timer.objs[1].waketime = timer.objs[2].waketime
    /\ now >= timer.objs[1].waketime
    /\ \E g \in TimerIds, k \in TimerIds :
           /\ hist.cancelled[g]
           /\ timer.ran[k] = 1
           /\ timer.addr[g] < timer.addr[k]
    /\ to_run = <<>>

\* =============================================================== pollers
\* poller.py: Poll, Epoll (a Poll on select.epoll) and Select.  A poller is
\* [backend, registry, facility]: facility is what the select.poll or
\* select.epoll object has registered (Select has none).  An absent key is
\* None.
Fds == 0..MaxFd
Masks == 0..MaxMask
Backends == {"Poll", "Epoll", "Select"}

\* The class attributes: select.POLLIN, POLLOUT, POLLERR (and the EPOLL
\* ones, which have the same values) for Poll and Epoll; 1, 2, 4 for Select.
INMASK(backend) == 1
OUTMASK(backend) == IF backend = "Select" THEN 2 ELSE 4
ERRMASK(backend) == IF backend = "Select" THEN 4 ELSE 8

\* Python's | and & on non-negative integers
RECURSIVE BitOr(_, _)
BitOr(a, b) ==
    IF a = 0 THEN b
    ELSE IF b = 0 THEN a
    ELSE (IF a % 2 = 1 \/ b % 2 = 1 THEN 1 ELSE 0) + 2 * BitOr(a \div 2, b \div 2)

RECURSIVE BitAnd(_, _)
BitAnd(a, b) ==
    IF a = 0 \/ b = 0 THEN 0
    ELSE (IF a % 2 = 1 /\ b % 2 = 1 THEN 1 ELSE 0) + 2 * BitAnd(a \div 2, b \div 2)

\* A descriptor argument is an int or an object with a fileno() method:
\* [isint, n].  `isinstance(fd, int) and fd or fd.fileno()` gives the int
\* itself unless it is 0, which is false, so that 0.fileno() is evaluated.
AttributeErr == 0 - 3

Fileno(d) ==
    IF d.isint THEN (IF d.n # 0 THEN d.n ELSE AttributeErr)
    ELSE d.n

\* select.poll / select.epoll: unregister, register
Facility_unregister(p, fd) == [p EXCEPT !.facility[fd] = None]

Facility_register(p, fd, eventmask) == [p EXCEPT !.facility[fd] = eventmask]

\* Poll.unregister / Select.unregister, given the int descriptor
Poller_unregister_fd(p, fd) ==
    IF p.backend = "Select"
    THEN (IF p.registry[fd] = None THEN [p |-> p, res |-> "KeyError", calls |-> <<>>]
          ELSE [p |-> [p EXCEPT !.registry[fd] = None], res |-> "ok", calls |-> <<>>])
    ELSE (IF p.facility[fd] = None THEN [p |-> p, res |-> "KeyError", calls |-> <<>>]
          ELSE [p |-> [Facility_unregister(p, fd) EXCEPT !.registry[fd] = None],
                res |-> "ok", calls |-> <<"unregister">>])

\* Poll.unregister / Select.unregister
Poller_unregister(p, d) ==
    IF Fileno(d) = AttributeErr
    THEN [p |-> p, res |-> "AttributeError", calls |-> <<>>]
    ELSE Poller_unregister_fd(p, Fileno(d))

\* register, lines 25-26 / 67-68: the default mask
Default_mask(backend) ==
    BitOr(BitOr(INMASK(backend), OUTMASK(backend)), ERRMASK(backend))

\* register, lines 28-33 / 70-75: the mask merged with a registration
Merge(reg, eventmask) == BitOr(reg, eventmask)

\* Poll.register / Select.register, given the int descriptor and the mask
Poller_register_fd(p, fd, eventmask) ==
    LET reg == p.registry[fd]
    IN  IF reg # None /\ BitAnd(reg, eventmask) = eventmask
        THEN [p |-> p, res |-> "ok", calls |-> <<>>]
        ELSE IF p.backend = "Select"
        THEN [p |-> [p EXCEPT !.registry[fd] =
                        IF reg # None THEN Merge(reg, eventmask) ELSE eventmask],
              res |-> "ok", calls |-> <<>>]
        ELSE IF reg # None
        THEN LET u == Poller_unregister_fd(p, fd)
                 m == Merge(reg, eventmask)
             IN  IF u.res # "ok" THEN u
                 ELSE [p |-> [Facility_register(u.p, fd, m) EXCEPT !.registry[fd] = m],
                       res |-> "ok", calls |-> <<"unregister", "register">>]
        ELSE [p |-> [Facility_register(p, fd, eventmask) EXCEPT !.registry[fd] = eventmask],
              res |-> "ok", calls |-> <<"register">>]

\* Poll.register / Select.register(fd, eventmask=None)
Poller_register(p, d, eventmask) ==
    IF Fileno(d) = AttributeErr
    THEN [p |-> p, res |-> "AttributeError", calls |-> <<>>]
    ELSE Poller_register_fd(p, Fileno(d),
             IF eventmask = None THEN Default_mask(p.backend) ELSE eventmask)

\* the bits of a mask, and the mask of a set of bits
RECURSIVE BitsFrom(_, _)
BitsFrom(m, b) ==
    IF m = 0 THEN {}
    ELSE (IF m % 2 = 1 THEN {b} ELSE {}) \cup BitsFrom(m \div 2, b + 1)

Bits(m) == BitsFrom(m, 0)

\* history: whether register was called for a descriptor since it was last
\* unregistered, and the bits of every mask passed in these calls; whether
\* the last call passed no bit that had not been passed, and if so the
\* poller before it
Passed(d, eventmask) ==
    LET old == hist.passed[d.n]
        new == IF eventmask = None
               THEN Bits(INMASK(poller.backend)) \cup Bits(OUTMASK(poller.backend))
                        \cup Bits(ERRMASK(poller.backend))
               ELSE Bits(eventmask)
        nonew == hist.called[d.n] /\ new \subseteq old
    IN  [hist EXCEPT !.called[d.n] = TRUE, !.passed[d.n] = old \cup new,
                     !.nonew = nonew,
                     !.before = IF nonew THEN poller ELSE None]

\* poller.register(d, eventmask)
PollRegister(d, eventmask) ==
    \E r \in {Poller_register(poller, d, eventmask)} :
        /\ poller' = r.p
        /\ hist' = Passed(d, eventmask)
        /\ last' = [op |-> "register", t |-> d.n, res |-> r.res, ran |-> r.calls,
                    err |-> 0]
        /\ UNCHANGED <<schedVars, eventVars, lockVars, condVars, wend, setGhost,
                       lockGhost, sem, queue, timer, chan>>

\* poller.unregister(d)
PollUnregister(d) ==
    \E r \in {Poller_unregister(poller, d)} :
        /\ poller' = r.p
        /\ hist' = IF r.res = "ok"
                   THEN [hist EXCEPT !.called[d.n] = FALSE, !.passed[d.n] = {},
                                     !.nonew = FALSE, !.before = None]
                   ELSE [hist EXCEPT !.nonew = FALSE, !.before = None]
        /\ last' = [op |-> "unregister", t |-> d.n, res |-> r.res, ran |-> r.calls,
                    err |-> 0]
        /\ UNCHANGED <<schedVars, eventVars, lockVars, condVars, wend, setGhost,
                       lockGhost, sem, queue, timer, chan>>

\* -------------------------------------------------- specification: pollers
Descriptors == [isint : BOOLEAN, n : Fds]

InitPoll ==
    /\ InitCommon
    /\ paused = <<>>
    /\ kind = "Lock"
    /\ sem = NoSem
    /\ queue = NoQueue
    /\ timer = NoTimer
    /\ chan = NoChan
    /\ \E b \in Backends :
           poller = [backend |-> b, registry |-> [fd \in Fds |-> None],
                     facility |-> [fd \in Fds |-> None]]
    /\ hist = [spec |-> "poll", called |-> [fd \in Fds |-> FALSE],
               passed |-> [fd \in Fds |-> {}], nonew |-> FALSE, before |-> None]

NextPoll ==
    \/ \E d \in Descriptors, eventmask \in Masks \cup {None} : PollRegister(d, eventmask)
    \/ \E d \in Descriptors : PollUnregister(d)

SpecPoll == InitPoll /\ [][NextPoll]_vars

\* -------------------------------------------------------- claims: pollers
\* C20: for every backend and descriptor, after register calls with no
\* unregister in between the recorded interest has exactly the bits of all
\* the masks passed (read, write and error for a call without a mask), and
\* the poll / epoll object has the same registration; a call that adds no
\* new bits succeeds, changes nothing and calls nothing.
C20_InterestIsOr ==
    \A fd \in Fds :
        hist.called[fd] =>
            /\ poller.registry[fd] # None
            /\ Bits(poller.registry[fd]) = hist.passed[fd]
            /\ poller.backend # "Select" => poller.facility[fd] = poller.registry[fd]

C20_NoNewBits ==
    (last.op = "register" /\ hist.nonew) =>
        /\ last.res = "ok"
        /\ last.ran = <<>>
        /\ hist.before = poller

C20_RegisterMerges == C20_InterestIsOr /\ C20_NoNewBits

\* the same, for every descriptor except 0
C20_NonzeroRegisterMerges ==
    /\ \A fd \in Fds \ {0} :
           hist.called[fd] =>
               /\ poller.registry[fd] # None
               /\ Bits(poller.registry[fd]) = hist.passed[fd]
               /\ poller.backend # "Select" => poller.facility[fd] = poller.registry[fd]
    /\ (last.op = "register" /\ last.t # 0 /\ hist.nonew) =>
           /\ last.res = "ok"
           /\ last.ran = <<>>
           /\ hist.before = poller

\* =============================================================== Channel
\* greenhouse.utils.Channel, a synchronous rendezvous: {balance,
\* waiting-senders: (value, task) pairs, waiting-receivers: tasks}.

\* send into a waiting receiver: control passes straight into the receiver;
\* the sender waits on the run queue
Handoff_deferred(run, sender, receiver) ==
    [paused |-> Append(run, receiver), current |-> sender]

Handoff(run, sender, receiver) ==
    [paused |-> Append(run, sender), current |-> receiver]

\* the balance after a send that found a receiver waiting
Transfer_balance_unchanged(balance) == balance

Transfer_balance(balance) == balance + 1

\* receive with a sender waiting: the sender is only scheduled; the receiver
\* keeps running
Wake_direct(run, receiver, sender) ==
    [paused |-> Append(run, receiver), current |-> sender]

Wake(run, receiver, sender) ==
    [paused |-> Append(run, sender), current |-> receiver]

\* Channel.send(value), called by task t with the run queue `run`
Channel_send(c, run, t, value) ==
    IF c.receivers # <<>>
    THEN LET r == Head(c.receivers)
             ho == Handoff(run, t, r)
         IN  [chan |-> [c EXCEPT !.receivers = Tail(@),
                                 !.balance = Transfer_balance(@)],
              paused |-> ho.paused, current |-> ho.current,
              res |-> "transfer", peer |-> r, value |-> value]
    ELSE [chan |-> [c EXCEPT !.senders = Append(@, [value |-> value, task |-> t]),
                             !.balance = @ + 1],
          paused |-> run, current |-> 0,
          res |-> "blocked", peer |-> 0, value |-> value]

\* Channel.receive(), called by task t with the run queue `run`
Channel_receive(c, run, t) ==
    IF c.senders # <<>>
    THEN LET s == Head(c.senders)
             wk == Wake(run, t, s.task)
         IN  [chan |-> [c EXCEPT !.senders = Tail(@), !.balance = @ - 1],
              paused |-> wk.paused, current |-> wk.current,
              res |-> "item", peer |-> s.task, value |-> s.value]
    ELSE [chan |-> [c EXCEPT !.receivers = Append(@, t), !.balance = @ - 1],
          paused |-> run, current |-> 0,
          res |-> "blocked", peer |-> 0, value |-> 0]

\* history of the Channel: sends and receives called; the balance before the
\* last call; the value of each suspended send and the order the suspended
\* senders arrived in; the senders a receive released that have not run
\* since; the chain of hand-offs in progress and the run queue when it began
ChanHist(op, t, r, before) ==
    [hist EXCEPT
        !.k = IF op = "send" THEN @ + 1 ELSE @,
        !.m = IF op = "receive" THEN @ + 1 ELSE @,
        !.prev = chan.balance,
        !.sent = [@ EXCEPT ![t] = IF op = "send" /\ r.res = "blocked"
                                  THEN r.value ELSE 0],
        !.arrival = IF op = "send" /\ r.res = "blocked" THEN Append(@, t)
                    ELSE IF op = "receive" /\ r.res = "item" THEN Tail(@)
                    ELSE @,
        !.oldest = IF hist.arrival # <<>>
                   THEN <<Head(hist.arrival), hist.sent[Head(hist.arrival)]>>
                   ELSE <<>>,
        !.released = IF op = "receive" /\ r.res = "item"
                     THEN (@ \ {t}) \cup {Head(hist.arrival)}
                     ELSE @ \ {t},
        !.chain = IF r.res # "transfer" THEN @
                  ELSE IF last.op = "send" /\ last.res = "transfer" /\ last.ran = <<t>>
                  THEN [@ EXCEPT !.len = @ + 1]
                  ELSE [len |-> 1, queued |-> before]]

\* channel.send(value): the value is the number of the send
ChanSend(t) ==
    /\ current = t
    /\ pc[t] = "idle"
    /\ hist.k < MaxChanOps
    /\ \E r \in {Channel_send(chan, paused, t, hist.k + 1)} :
           /\ chan' = r.chan
           /\ paused' = r.paused
           /\ current' = r.current
           /\ pc' = IF r.res = "transfer" THEN [pc EXCEPT ![r.peer] = "idle"]
                    ELSE [pc EXCEPT ![t] = "send_wait"]
           /\ hist' = ChanHist("send", t, r, to_run \o paused)
           /\ last' = [op |-> "send", t |-> t, res |-> r.res,
                       ran |-> IF r.peer = 0 THEN <<>> ELSE <<r.peer>>,
                       err |-> r.value]
    /\ UNCHANGED <<to_run, awoken, timed_paused, paused_on, now, exc, eventVars,
                   lockVars, condVars, wend, setGhost, lockGhost,
                   sem, queue, timer, poller>>

\* channel.receive()
ChanReceive(t) ==
    /\ current = t
    /\ pc[t] = "idle"
    /\ hist.m < MaxChanOps
    /\ \E r \in {Channel_receive(chan, paused, t)} :
           /\ chan' = r.chan
           /\ paused' = r.paused
           /\ current' = r.current
           /\ pc' = IF r.res = "item" THEN [pc EXCEPT ![r.peer] = "idle"]
                    ELSE [pc EXCEPT ![t] = "recv_wait"]
           /\ hist' = ChanHist("receive", t, r, to_run \o paused)
           /\ last' = [op |-> "receive", t |-> t, res |-> r.res,
                       ran |-> IF r.peer = 0 THEN <<>> ELSE <<r.peer>>,
                       err |-> r.value]
    /\ UNCHANGED <<to_run, awoken, timed_paused, paused_on, now, exc, eventVars,
                   lockVars, condVars, wend, setGhost, lockGhost,
                   sem, queue, timer, poller>>

\* ------------------------------------------------- specification: Channel
InitChan ==
    /\ InitCommon
    /\ paused = [i \in 1..ChTasks |-> i]
    /\ kind = "Lock"
    /\ sem = NoSem
    /\ queue = NoQueue
    /\ timer = NoTimer
    /\ poller = NoPoller
    /\ chan = NoChan
    /\ hist = [spec |-> "chan", k |-> 0, m |-> 0, prev |-> 0,
               sent |-> [t \in Tasks |-> 0], arrival |-> <<>>, oldest |-> <<>>,
               released |-> {}, chain |-> [len |-> 0, queued |-> <<>>]]

NextChan ==
    \/ Repopulate
    \/ \E t \in Tasks : Dispatch(t)
    \/ \E t \in Tasks : Pause(t)
    \/ \E t \in Tasks : ChanSend(t)
    \/ \E t \in Tasks : ChanReceive(t)

SpecChan == InitChan /\ [][NextChan]_vars

\* --------------------------------------------------------- claims: Channel
Blocked(place) == {t \in Tasks : pc[t] = place}

\* C21: in every reachable state the balance is the number of waiting
\* senders minus the number of waiting receivers, the two queues are never
\* both non-empty and hold exactly the tasks suspended in send and in
\* receive, and after k sends and m receives the balance is k - m.
C21_ChannelBalance ==
    /\ chan.balance = Len(chan.senders) - Len(chan.receivers)
    /\ ~(chan.senders # <<>> /\ chan.receivers # <<>>)
    /\ {chan.senders[i].task : i \in 1..Len(chan.senders)} = Blocked("send_wait")
    /\ Cardinality(Blocked("send_wait")) = Len(chan.senders)
    /\ Range(chan.receivers) = Blocked("recv_wait")
    /\ Cardinality(Blocked("recv_wait")) = Len(chan.receivers)
    /\ chan.balance = hist.k - hist.m

\* receivers have waited, a send has paired with one, and senders wait now
C21_Witness ==
    /\ hist.k = MaxChanOps
    /\ hist.m >= 2
    /\ chan.balance = 1
    /\ last.op = "send"
    /\ last.res = "blocked"

\* the run queue: the rest of this tick's snapshot, then the tasks
\* scheduled since
RunQueue == to_run \o paused

\* C22: a send into a waiting receiver transfers control directly.  When a
\* receiver is handed a value it is the running task at once, and through a
\* whole chain of hand-offs (each receiver sends the value on as its next
\* step) nothing that was on the run queue when the driver sent has run:
\* the run queue is what it was then, followed by the senders of the chain.
C22_HotPotato ==
    (last.op = "send" /\ last.res = "transfer") =>
        /\ current = last.ran[1]
        /\ pc[current] = "idle"
        /\ current \notin Range(RunQueue)
        /\ Len(RunQueue) = Len(hist.chain.queued) + hist.chain.len
        /\ SubSeq(RunQueue, 1, Len(hist.chain.queued)) = hist.chain.queued
        /\ to_run = SubSeq(hist.chain.queued, 1, Len(to_run))
        /\ RunQueue[Len(RunQueue)] = last.t

\* a chain of two hand-offs with an unrelated task on the run queue
C22_Witness ==
    /\ last.op = "send"
    /\ last.res = "transfer"
    /\ hist.chain.len >= 2
    /\ hist.chain.queued # <<>>
    /\ \E i \in 1..Len(hist.chain.queued) : pc[hist.chain.queued[i]] = "idle"

\* C23: receive() with a sender waiting removes the oldest waiting sender,
\* returns that sender's value without suspending the caller, decrements
\* the balance by one and only schedules the sender: it is at the back of
\* the run queue while the receiver runs on.
C23_ReceiveReturns ==
    (last.op = "receive" /\ last.res = "item") =>
        /\ current = last.t
        /\ pc[current] = "idle"
        /\ hist.oldest = <<last.ran[1], last.err>>
        /\ chan.balance = hist.prev - 1
        /\ last.ran[1] \notin {chan.senders[i].task : i \in 1..Len(chan.senders)}
        /\ paused # <<>>
        /\ paused[Len(paused)] = last.ran[1]
        /\ last.ran[1] \notin Range(to_run)
        /\ pc[last.ran[1]] = "idle"

\* a released sender starts to run only when the dispatch loop, which runs
\* once the running task has suspended, takes it from a snapshot
C23_DeferredWake ==
    [][\A s \in Tasks :
          (s \in hist.released /\ current # s /\ current' = s) =>
              /\ current = 0
              /\ to_run # <<>>
              /\ Head(to_run) = s]_vars

C23_ReceiveFromSender == []C23_ReceiveReturns /\ C23_DeferredWake

\* two senders waited; a receive has released the older one and the
\* receiver is still running
C23_Witness ==
    /\ last.op = "receive"
    /\ last.res = "item"
    /\ chan.senders # <<>>
    /\ last.err < chan.senders[1].value
    /\ hist.released # {}

\* ------------------------------------------- specification: dispatch ticks
\* Tasks that pause, wait on and set an Event, and use a Channel.
InitFair ==
    /\ InitCommon
    /\ paused = [i \in 1..NTasks |-> i]
    /\ kind = "Lock"
    /\ sem = NoSem
    /\ queue = NoQueue
    /\ timer = NoTimer
    /\ poller = NoPoller
    /\ chan = NoChan
    /\ hist = [spec |-> "chan", k |-> 0, m |-> 0, prev |-> 0,
               sent |-> [t \in Tasks |-> 0], arrival |-> <<>>, oldest |-> <<>>,
               released |-> {}, chain |-> [len |-> 0, queued |-> <<>>]]

NextFair ==
    \/ Repopulate
    \/ \E t \in Tasks : Dispatch(t)
    \/ \E t \in Tasks : Pause(t)
    \/ \E t \in Tasks : WaitReturn(t)
    \/ \E t \in Tasks : EvSet(t, UserEvent)
    \/ \E t \in Tasks : EvClear(t, UserEvent)
    \/ \E t \in Tasks : EvWait(t, UserEvent, None, 0)
    \/ \E t \in Tasks : ChanSend(t)
    \/ \E t \in Tasks : ChanReceive(t)

SpecFair == InitFair /\ [][NextFair]_vars

\* ---------------------------------------------------- claims: dispatching
\* the tasks that are ready but have not entered a snapshot
Entered == Range(paused) \cup awoken

\* C24: a task that enters the run queue during a tick (by scheduling, by
\* an Event.set wake or by a deferred channel wake) does not run before the
\* next snapshot.  The snapshot changes only by losing its head or, once
\* exhausted, by being retaken from the tasks that had entered; the loop
\* resumes only the head of the snapshot; a task that becomes ready during
\* a tick is not in the snapshot; and Event.set leaves the setter running.
C24_SnapshotSteps ==
    [][to_run' # to_run =>
          \/ to_run # <<>> /\ to_run' = Tail(to_run)
          \/ /\ to_run = <<>>
             /\ current = 0
             /\ Range(to_run') = Entered
             /\ Entered' = {}]_vars

C24_ResumeSteps ==
    [][\A t \in Tasks :
          (current' = t /\ current # t /\ ~(last'.op = "send" /\ last'.res = "transfer")) =>
              /\ current = 0
              /\ to_run # <<>>
              /\ Head(to_run) = t
              /\ to_run' = Tail(to_run)]_vars

C24_EnterSteps ==
    [][\A t \in Tasks :
          (t \in Entered' /\ t \notin Entered) =>
              /\ t \notin Range(to_run')
              /\ current' # t]_vars

C24_SetSteps ==
    [][last'.op = "set" =>
          /\ current' = current
          /\ current' = last'.t
          /\ to_run' = to_run
          /\ Range(paused_on[UserEvent]) \subseteq awoken'
          /\ Range(paused_on[UserEvent]) \cap Range(to_run') = {}]_vars

C24_DispatchFairness ==
    C24_SnapshotSteps /\ C24_ResumeSteps /\ C24_EnterSteps /\ C24_SetSteps

\* in the middle of a tick a receive has released a sender and a set by the
\* running task has woken a waiter
C24_Witness ==
    /\ current # 0
    /\ last.op = "set"
    /\ awoken # {}
    /\ hist.released \cap Range(paused) # {}

\* ------------------------------------- specification: timeout against set
\* Timed and untimed waits on one Event, set, clear and timer expiry, with
\* no timeout callbacks registered.
NextRace ==
    \/ Repopulate
    \/ AdvanceTime
    \/ \E t \in Tasks : Dispatch(t)
    \/ \E t \in Tasks : Pause(t)
    \/ \E r \in 1..MaxRaceTimers : r <= Len(hit) /\ hit_timeout(r)
    \/ \E t \in Tasks : WaitReturn(t)
    \/ \E t \in Tasks : EvSet(t, UserEvent)
    \/ \E t \in Tasks : EvClear(t, UserEvent)
    \/ \E t \in Tasks, timeout \in TimeoutChoices :
           EvWait(t, UserEvent, timeout, MaxRaceTimers)

SpecRace == InitTimeout /\ [][NextRace]_vars

\* C25: each wait on an unsignaled event wakes its task exactly once.  A
\* suspended waiter is in exactly one of the waiter list (once), the woken
\* set and the run queue, and a task that is not waiting is in none of the
\* first two; a task enters the woken set only from the waiter list, losing
\* its entry; a timed wait ends once, by set or by expiry; the expiry of a
\* wait that set ended changes neither the waiter list nor the woken set
\* and raises nothing; an expiry that fires removes the waiter's entry.
C25_OnePlace ==
    \A t \in 1..TmTasks :
        /\ Places(t) = 1
        /\ pc[t] = "idle" => Occurs(paused_on[UserEvent], t) = 0 /\ t \notin awoken
        /\ exc[t] = 0

C25_WakeSteps ==
    [][\A t \in 1..TmTasks :
          (t \in awoken' /\ t \notin awoken) =>
              /\ pc[t] = "ev_wait"
              /\ Occurs(paused_on[UserEvent], t) = 1
              /\ Occurs(paused_on'[UserEvent], t) = 0]_vars

C25_EndsOnce ==
    [][\A r \in 1..Len(wend) : wend'[r] # wend[r] => wend[r] = "waiting"]_vars

C25_ExpirySteps ==
    [][\A r \in 1..MaxRaceTimers :
          (r <= Len(hit) /\ to_run # <<>> /\ Head(to_run) = 0 - r /\ hit_timeout(r)) =>
              IF wend[r] = "set"
              THEN /\ paused_on' = paused_on
                   /\ awoken' = awoken
                   /\ last'.res = "disarmed"
              ELSE /\ wend[r] = "waiting"
                   /\ last'.res = "fired"
                   /\ hit[r].task \in awoken'
                   /\ hit[r].task \notin Range(paused_on'[UserEvent])]_vars

C25_TimeoutSetRace ==
    []C25_OnePlace /\ C25_WakeSteps /\ C25_EndsOnce /\ C25_ExpirySteps

\* set ended a timed wait, the task waits again, and the timer of the first
\* wait has now expired
C25_Witness ==
    /\ last.op = "hit_timeout"
    /\ last.res = "disarmed"
    /\ last.t \in Range(paused_on[UserEvent])
    /\ pc[last.t] = "ev_wait"

\* ------------------------------------------------- claims: the timer set
\* the timer set is ordered by wake time
C26_ByWakeTime ==
    \A i, j \in 1..Len(timed_paused) :
        i < j => timed_paused[i][1] <= timed_paused[j][1]

\* C26: the timer set is ordered by wake time and, among entries with the
\* same wake time, by creation order (Timers are numbered as created).
C26_ByWakeTimeThenCreation ==
    \A i, j \in 1..Len(timed_paused) :
        i < j =>
            \/ timed_paused[i][1] < timed_paused[j][1]
            \/ /\ timed_paused[i][1] = timed_paused[j][1]
               /\ timed_paused[i][2] < timed_paused[j][2]

\* ------------------------------------- claims: Condition's ownership check
\* C27: the ownership check at the start of notify and notify_all (which do
\* nothing else to the lock) leaves the lock as it was, for a plain Lock
\* and for an RLock: held by the same holder or unheld, and no task waiting
\* for the lock woken.
C27_CheckLeavesLock ==
    [][(\E t \in Tasks : CondNotifyAll(t) \/ \E num \in 0..MaxWaits : CondNotify(t, num)) =>
          /\ locked' = locked
          /\ owner' = owner
          /\ count' = count
          /\ paused_on'[LockEvent] = paused_on[LockEvent]
          /\ Range(paused_on[LockEvent]) \cap awoken' = Range(paused_on[LockEvent]) \cap awoken]_vars

\* the same for a Condition built on an RLock
C27_CheckLeavesRLock ==
    [][(kind = "RLock" /\ \E t \in Tasks :
            CondNotifyAll(t) \/ \E num \in 0..MaxWaits : CondNotify(t, num)) =>
          /\ locked' = locked
          /\ owner' = owner
          /\ count' = count
          /\ paused_on'[LockEvent] = paused_on[LockEvent]
          /\ Range(paused_on[LockEvent]) \cap awoken' = Range(paused_on[LockEvent]) \cap awoken]_vars

\* ------------------------------------------- claims: the Queue's counters
\* C28: unfinished_tasks is never negative and never more than the items
\* put; all_tasks_done is signaled exactly when it is zero; a task_done at
\* zero raises ValueError and changes nothing, any other task_done lowers
\* the count by one; and only a put that stores an item raises it, by one.
C28_Count ==
    /\ queue.unfinished_tasks >= 0
    /\ queue.unfinished_tasks <= Len(hist.putlog)
    /\ (queue.unfinished_tasks = 0) = is_set[all_tasks_done]

C28_TaskDoneSteps ==
    [][\A t \in Tasks :
          QueueTaskDone(t) =>
              IF queue.unfinished_tasks = 0
              THEN /\ last'.res = "ValueError"
                   /\ queue' = queue
                   /\ is_set' = is_set
                   /\ paused_on' = paused_on
                   /\ awoken' = awoken
                   /\ current' = t
              ELSE /\ last'.res = "ok"
                   /\ queue'.unfinished_tasks = queue.unfinished_tasks - 1
                   /\ queue'.queue = queue.queue]_vars

C28_OtherSteps ==
    [][(\A t \in Tasks : ~QueueTaskDone(t)) =>
          queue'.unfinished_tasks =
              queue.unfinished_tasks + Len(hist'.putlog) - Len(hist.putlog)]_vars

C28_UnfinishedTasks == []C28_Count /\ C28_TaskDoneSteps /\ C28_OtherSteps

\* items were put and marked done, and one task_done too many has failed
C28_Witness ==
    /\ last.op = "task_done"
    /\ last.res = "ValueError"
    /\ Len(hist.putlog) >= 2
    /\ queue.unfinished_tasks = 0
    /\ is_set[all_tasks_done]

\* C29: a Queue with maxsize > 0 never stores more than maxsize items,
\* whatever blocking, timed and non-blocking puts and gets interleave.
C29_NeverOverfull ==
    queue.maxsize > 0 => Len(queue.queue) <= queue.maxsize

\* a put that had been suspended was resumed and found the queue full again
C29_Witness ==
    /\ last.op = "put_return"
    /\ last.res = "Full"
    /\ last.ran = <<>>
    /\ queue.maxsize > 0
    /\ Len(queue.queue) = queue.maxsize

====
